---- MODULE Spec2Model ----
(***************************************************************************)
(* Temporal sequence sets of MobilityDB (general/tsequenceset.c): the      *)
(* packed buffer of a sequence set, its constructor, the index function,   *)
(* the binary search on timestamps and the two append operations.          *)
(*                                                                         *)
(* Memory is modelled in words of sizeof(size_t) = 8 bytes, the unit of    *)
(* double_pad(): every offset slot is one word and every sequence is       *)
(* stored double-padded, so all the addresses the code computes are word   *)
(* addresses.  The bounding box is the period alone (bboxsize =            *)
(* sizeof(Span)), so the offsets array starts at word 0 right after the    *)
(* header.  The interpolation is linear.                                   *)
(***************************************************************************)
EXTENDS Integers, Sequences, FiniteSets, TLC

\* Bounds of the model
MaxT == 2       \* timestamps are 0..MaxT
MaxV == 1       \* base values are 0..MaxV
MaxInsts == 2   \* instants of a sequence given to an operation
MaxMake == 2    \* sequences of an array given to tsequenceset_make

Times == 0..MaxT
Values == 0..MaxV

VARIABLES ss, op
vars == <<ss, op>>

-----------------------------------------------------------------------------
(* Sequences: (instants, lower_inc, upper_inc); the period is              *)
(* [t of the first instant, t of the last instant] with the two flags.     *)

NoSeq == [insts |-> <<>>, lower_inc |-> FALSE, upper_inc |-> FALSE]

Lower(s) == s.insts[1].t
Upper(s) == s.insts[Len(s.insts)].t
FirstInst(s) == s.insts[1]
LastInst(s) == s.insts[Len(s.insts)]

\* datum_collinear for numbers: the three instants lie on one line
Collinear(i1, i2, i3) ==
  (i2.v - i1.v) * (i3.t - i2.t) = (i3.v - i2.v) * (i2.t - i1.t)

\* A valid, normalised sequence (spec section 3)
ValidSeq(s) ==
  /\ Len(s.insts) >= 1
  /\ \A i \in 1..(Len(s.insts) - 1) : s.insts[i].t < s.insts[i + 1].t
  /\ (Len(s.insts) = 1 => (s.lower_inc /\ s.upper_inc))
  /\ \A i \in 1..(Len(s.insts) - 2) :
       ~Collinear(s.insts[i], s.insts[i + 1], s.insts[i + 2])

InputSeqs ==
  { s \in [insts : UNION {[1..n -> [t : Times, v : Values]] : n \in 1..MaxInsts},
           lower_inc : BOOLEAN, upper_inc : BOOLEAN] : ValidSeq(s) }

\* contains_period_timestamp(&seq->period, t)
contains_period_timestamp(s, t) ==
  /\ (Lower(s) < t \/ (Lower(s) = t /\ s.lower_inc))
  /\ (t < Upper(s) \/ (Upper(s) = t /\ s.upper_inc))

\* tsequence_join_test: the join predicate of spec section 4.4
tsequence_join_test(a, b) ==
  /\ Upper(a) = Lower(b)
  /\ (a.upper_inc \/ b.lower_inc)
  /\ LastInst(a).v = FirstInst(b).v

\* tsequence_append_tsequence on two sequences that join: one sequence, the
\* shared instant kept once and dropped when it is collinear with its
\* neighbours
tsequence_append_tsequence(a, b) ==
  LET n == Len(a.insts)
      tl == Tail(b.insts)
      drop == /\ n >= 2
              /\ Len(tl) >= 1
              /\ Collinear(a.insts[n - 1], a.insts[n], tl[1])
      hd == IF drop THEN SubSeq(a.insts, 1, n - 1) ELSE a.insts
  IN [insts |-> hd \o tl, lower_inc |-> a.lower_inc, upper_inc |-> b.upper_inc]

\* ensure_valid_tseqarr: the periods are strictly ordered and two sequences
\* share an endpoint only when at least one of them excludes it
ensure_valid_tseqarr(seqs) ==
  \A i \in 1..(Len(seqs) - 1) :
    \/ Upper(seqs[i]) < Lower(seqs[i + 1])
    \/ /\ Upper(seqs[i]) = Lower(seqs[i + 1])
       /\ ~(seqs[i].upper_inc /\ seqs[i + 1].lower_inc)

\* tseqarr_normalize: pairwise merge of adjacent sequences that join
RECURSIVE NormalizeFrom(_, _)
NormalizeFrom(acc, rest) ==
  IF rest = <<>> THEN acc
  ELSE LET l == acc[Len(acc)]
           s == Head(rest)
       IN IF tsequence_join_test(l, s)
          THEN NormalizeFrom(SubSeq(acc, 1, Len(acc) - 1)
                               \o <<tsequence_append_tsequence(l, s)>>, Tail(rest))
          ELSE NormalizeFrom(Append(acc, s), Tail(rest))

tseqarr_normalize(seqs) == NormalizeFrom(<<Head(seqs)>>, Tail(seqs))

-----------------------------------------------------------------------------
(* Words of the buffer.  A raw word holds a number (an offset, or 0 after  *)
(* palloc0); a sequence is its header word followed by one word per        *)
(* instant.                                                                *)

RawW(n) == [k |-> "raw", a |-> n, b |-> 0, c |-> 0]
ZeroW == RawW(0)
B2I(x) == IF x THEN 1 ELSE 0
HdrW(s) == [k |-> "hdr", a |-> Len(s.insts), b |-> B2I(s.lower_inc), c |-> B2I(s.upper_inc)]
InstW(i) == [k |-> "inst", a |-> i.t, b |-> i.v, c |-> 0]

\* The words of a stored sequence
Encode(s) == <<HdrW(s)>> \o [i \in 1..Len(s.insts) |-> InstW(s.insts[i])]

\* double_pad(VARSIZE(seq)), in words
SeqWords(s) == 1 + Len(s.insts)

RECURSIVE SumWords(_)
SumWords(seqs) == IF seqs = <<>> THEN 0 ELSE SeqWords(Head(seqs)) + SumWords(Tail(seqs))

RECURSIVE SumInsts(_)
SumInsts(seqs) == IF seqs = <<>> THEN 0 ELSE Len(Head(seqs).insts) + SumInsts(Tail(seqs))

RECURSIVE Flatten(_)
Flatten(seqs) == IF seqs = <<>> THEN <<>> ELSE Encode(Head(seqs)) \o Flatten(Tail(seqs))

\* The sequence read at word address addr (0-based); NoSeq when the words
\* there are not those of a sequence
DecodeAt(mem, addr) ==
  IF addr < 0 \/ addr + 1 > Len(mem) \/ mem[addr + 1].k # "hdr" THEN NoSeq
  ELSE LET h == mem[addr + 1]
       IN IF \/ addr + 1 + h.a > Len(mem)
             \/ \E j \in 1..h.a : mem[addr + 1 + j].k # "inst"
          THEN NoSeq
          ELSE [insts |-> [j \in 1..h.a |->
                            [t |-> mem[addr + 1 + j].a, v |-> mem[addr + 1 + j].b]],
                lower_inc |-> (h.b = 1), upper_inc |-> (h.c = 1)]

\* mem with the words from address addr on replaced by ws
WriteAt(mem, addr, ws) ==
  [w \in 1..Len(mem) |->
     IF w - 1 >= addr /\ w - 1 < addr + Len(ws) THEN ws[w - addr] ELSE mem[w]]

-----------------------------------------------------------------------------
(* The sequence set: header fields and the words after the header.         *)

NoPeriod == [lower |-> 0, upper |-> 0, lower_inc |-> FALSE, upper_inc |-> FALSE]
NullSS == [count |-> 0, maxcount |-> 0, totalcount |-> 0, period |-> NoPeriod,
           mem |-> <<>>]

\* (tsequenceset_offsets_ptr(ss))[i]
tsequenceset_offsets_ptr(s, i) == s.mem[i + 1].a

\* Word address of the n-th sequence: the data start after ss->count slots
SeqAddr(s, index) == s.count + tsequenceset_offsets_ptr(s, index)

tsequenceset_seq_n(s, index) == DecodeAt(s.mem, SeqAddr(s, index))

\* The sequences of a sequence set as the index function yields them
Seqs(s) == [i \in 1..s.count |-> tsequenceset_seq_n(s, i - 1)]

\* Every sequence read through the index function is a stored sequence
Decodable(s) == s.count >= 1 /\ \A i \in 0..(s.count - 1) : tsequenceset_seq_n(s, i) # NoSeq

\* tsequenceset_compute_bbox: the period from the first lower to the last upper bound
tsequenceset_compute_bbox(seqs) ==
  [lower |-> Lower(seqs[1]), upper |-> Upper(seqs[Len(seqs)]),
   lower_inc |-> seqs[1].lower_inc, upper_inc |-> seqs[Len(seqs)].upper_inc]

\* tsequenceset_expand_bbox: the period extended to the end of seq
tsequenceset_expand_bbox(p, seq) ==
  IF Upper(seq) > p.upper \/ (Upper(seq) = p.upper /\ seq.upper_inc)
  THEN [p EXCEPT !.upper = Upper(seq), !.upper_inc = seq.upper_inc]
  ELSE p

\* Results of an operation
Failed(e) == [err |-> e, path |-> "none", ss |-> NullSS]
Done(path, s) == [err |-> "none", path |-> path, ss |-> s]

\* Position of sequence i (1-based) among the stored ones
RECURSIVE PosOf(_, _)
PosOf(seqs, i) == IF i = 1 THEN 0 ELSE PosOf(seqs, i - 1) + SeqWords(seqs[i - 1])

\* Size in words reserved for the sequences
SeqsSize(normseqs, count, maxcount) ==
  IF count # maxcount THEN (SumWords(normseqs) * maxcount) \div count
  ELSE SumWords(normseqs)

\* Number of offset slots before the first stored sequence
DataStart(newcount, maxcount) == newcount

tsequenceset_make1_exp(sequences, maxcount, normalize) ==
  IF ~ensure_valid_tseqarr(sequences) THEN Failed("InvalidOrder")
  ELSE
    LET count == Len(sequences)
        normseqs == IF normalize /\ count > 1 THEN tseqarr_normalize(sequences)
                    ELSE sequences
        newcount == Len(normseqs)
        seqs_size == SeqsSize(normseqs, count, maxcount)
        maxc == IF count # maxcount THEN maxcount ELSE newcount
        memsize == maxc + seqs_size
        pdata == DataStart(newcount, maxc)
        data == Flatten(normseqs)
        \* palloc0, then per sequence the memcpy and the offset
        mem0 == [w \in 1..memsize |-> ZeroW]
        mem1 == WriteAt(mem0, pdata, data)
        mem2 == WriteAt(mem1, 0, [i \in 1..newcount |-> RawW(PosOf(normseqs, i))])
    IN Done("make",
            [count |-> newcount, maxcount |-> maxc,
             totalcount |-> SumInsts(normseqs),
             period |-> tsequenceset_compute_bbox(normseqs),
             mem |-> mem2])

tsequenceset_make1(sequences, normalize) ==
  tsequenceset_make1_exp(sequences, Len(sequences), normalize)

\* tsequenceset_make_valid passes: one interpolation is modelled
tsequenceset_make(sequences, normalize) == tsequenceset_make1(sequences, normalize)

-----------------------------------------------------------------------------
(* tsequenceset_append_tsequence                                           *)

\* size_t size of lines 2222-2226; a negative difference wraps around to a
\* huge unsigned number, which never fits
AppendSize(join, newseq, last, seq) ==
  IF join THEN SeqWords(newseq) - SeqWords(last) ELSE SeqWords(seq)

\* Free words after the last stored sequence
AvailSize(s, last) == Len(s.mem) - (SeqAddr(s, s.count - 1) + SeqWords(last))

\* In-place append of a sequence that joins the last one (lines 2243-2256)
AppendSeqInPlaceJoin(s, last, newseq, seq) ==
  LET addr == SeqAddr(s, s.count - 1)
      mem1 == WriteAt(s.mem, addr, [i \in 1..SeqWords(last) |-> ZeroW])
      mem2 == WriteAt(mem1, addr, Encode(newseq))
  IN Done("inplace_join",
          [s EXCEPT !.mem = mem2,
                    !.period = tsequenceset_expand_bbox(s.period, seq)])

\* In-place append of a sequence that does not join (lines 2235-2256).  The
\* source of the memcpy is newseq, which is NULL on this path: reading it is
\* undefined behaviour, and ub is what the build makes of it: the process
\* dies ("crash") or nothing is copied ("skip").
AppendSeqInPlaceNew(s, last, seq, ub) ==
  LET count == s.count + 1
      mem1 == WriteAt(s.mem, count - 1,
                <<RawW(tsequenceset_offsets_ptr(s, count - 2) + SeqWords(last))>>)
      s1 == [s EXCEPT !.mem = mem1, !.count = s.count + 1,
                      !.totalcount = s.totalcount + Len(seq.insts)]
  IN IF ub = "crash" THEN [err |-> "crash", path |-> "inplace_new", ss |-> s1]
     ELSE Done("inplace_new",
               [s1 EXCEPT !.period = tsequenceset_expand_bbox(s.period, seq)])

\* maxcount of the fresh buffer (lines 2273-2280)
AppendSeqMaxcount(s, count, expand) ==
  IF expand /\ count > s.maxcount THEN s.maxcount * 2 ELSE count

\* The reallocating path (lines 2260-2284)
AppendSeqRealloc(s, last, join, newseq, seq, expand) ==
  LET count == IF join THEN s.count ELSE s.count + 1
      kept == [i \in 1..(s.count - 1) |-> tsequenceset_seq_n(s, i - 1)]
      sequences == IF join THEN Append(kept, newseq)
                   ELSE kept \o <<tsequenceset_seq_n(s, s.count - 1), seq>>
      r == tsequenceset_make1_exp(sequences, AppendSeqMaxcount(s, count, expand), FALSE)
  IN [r EXCEPT !.path = IF r.err = "none" THEN "realloc" ELSE "none"]

\* A bug: the values are compared whatever the bounds
AppendSeqCheckAllBounds(s, last, seq) ==
  LET inst1 == LastInst(last)
      inst2 == FirstInst(seq)
  IN IF inst1.t > inst2.t THEN "TimestampOrder"
     ELSE IF inst1.t = inst2.t /\ inst1.v # inst2.v THEN "ValueMismatchAtJoin"
          ELSE "none"

\* The checks of lines 2179-2206: "none" or the error raised
AppendSeqCheck(s, last, seq) ==
  LET inst1 == LastInst(last)
      inst2 == FirstInst(seq)
  IN IF inst1.t > inst2.t THEN "TimestampOrder"
     ELSE IF /\ inst1.t = inst2.t
             /\ s.period.upper_inc
             /\ seq.lower_inc
             /\ inst1.v # inst2.v
          THEN "ValueMismatchAtJoin"
          ELSE "none"

tsequenceset_append_tsequence(s, seq, expand, ub) ==
  LET last == tsequenceset_seq_n(s, s.count - 1)
      e == AppendSeqCheck(s, last, seq)
  IN IF e # "none" THEN Failed(e)
     ELSE
       LET join == tsequence_join_test(last, seq)
           newseq == IF join THEN tsequence_append_tsequence(last, seq) ELSE NoSeq
           count == IF join THEN s.count ELSE s.count + 1
           size == AppendSize(join, newseq, last, seq)
       IN IF expand /\ count <= s.maxcount /\ size >= 0 /\ size <= AvailSize(s, last)
          THEN IF join THEN AppendSeqInPlaceJoin(s, last, newseq, seq)
               ELSE AppendSeqInPlaceNew(s, last, seq, ub)
          ELSE AppendSeqRealloc(s, last, join, newseq, seq, expand)

\* What the build may make of the undefined behaviour of an operation
UB == {"crash", "skip"}

-----------------------------------------------------------------------------
(* tsequenceset_append_tinstant                                            *)

\* tinstant_to_tsequence
InstSeq(inst) == [insts |-> <<inst>>, lower_inc |-> TRUE, upper_inc |-> TRUE]

\* tsequence_append_tinstant: an error, one sequence (the instant extends
\* seq), or the two sequences of a sequence set (an instant at the excluded
\* upper bound of seq with another value)
tsequence_append_tinstant(seq, inst) ==
  LET n == Len(seq.insts)
      last == seq.insts[n]
  IN IF last.t > inst.t THEN [err |-> "TimestampOrder", seqs |-> <<>>]
     ELSE IF last.t = inst.t
     THEN IF seq.upper_inc
          THEN IF last.v # inst.v THEN [err |-> "ValueMismatchAtJoin", seqs |-> <<>>]
               ELSE [err |-> "none", seqs |-> <<seq>>]
          ELSE IF last.v = inst.v
               THEN [err |-> "none", seqs |-> <<[seq EXCEPT !.upper_inc = TRUE]>>]
               ELSE [err |-> "none", seqs |-> <<seq, InstSeq(inst)>>]
     ELSE LET drop == n >= 2 /\ Collinear(seq.insts[n - 1], last, inst)
              hd == IF drop THEN SubSeq(seq.insts, 1, n - 1) ELSE seq.insts
          IN [err |-> "none",
              seqs |-> <<[insts |-> Append(hd, inst), lower_inc |-> seq.lower_inc,
                          upper_inc |-> TRUE]>>]

\* The words of a whole sequence set: its header, then the words after it
SetHdrW(s) == [k |-> "sethdr", a |-> s.count, b |-> s.maxcount, c |-> s.totalcount]
EncodeSet(s) == <<SetHdrW(s)>> \o s.mem

\* size of lines 2095-2104
AppendInstSize(temp) == SumWords(temp)

\* In-place append of an instant that extends the last sequence: count ==
\* ss->count, one memset and one memcpy over the last sequence (lines 2119-2140)
AppendInstInPlaceOne(s, temp) ==
  LET addr == SeqAddr(s, s.count - 1)
      mem1 == WriteAt(s.mem, addr, [i \in 1..AppendInstSize(temp) |-> ZeroW])
      mem2 == WriteAt(mem1, addr, Encode(temp[1]))
  IN Done("inplace_join",
          [s EXCEPT !.mem = mem2,
                    !.period = tsequenceset_expand_bbox(s.period, temp[1])])

\* In-place append of an instant that yields two sequences: the offset slot
\* and the counts are updated (lines 2112-2118); ss->count then equals count,
\* so the branch of line 2120 is taken again and temp, a sequence set, is
\* copied as a whole over the last sequence.  The copy is longer than the
\* space that was checked: past the end of the buffer it is undefined
\* behaviour (ub).
AppendInstInPlaceTwo(s, temp, ub) ==
  LET count == s.count + 1
      addr == SeqAddr(s, s.count - 1)
      ss1 == tsequenceset_make(temp, FALSE).ss
      mem1 == WriteAt(s.mem, count - 1,
                <<RawW(tsequenceset_offsets_ptr(s, count - 2) + SeqWords(temp[1]))>>)
      mem2 == WriteAt(mem1, addr, [i \in 1..AppendInstSize(temp) |-> ZeroW])
      mem3 == WriteAt(mem2, addr, EncodeSet(ss1))
      s1 == [s EXCEPT !.mem = mem3, !.count = s.count + 1,
                      !.totalcount = s.totalcount + 1,
                      !.period = tsequenceset_expand_bbox(s.period, temp[2])]
      overflow == addr + Len(EncodeSet(ss1)) > Len(s.mem)
  IN IF overflow /\ ub = "crash" THEN [err |-> "crash", path |-> "inplace_new", ss |-> s1]
     ELSE Done("inplace_new", s1)

\* Bytes allocated for the array of sequence pointers (line 2146)
AppendInstPtrBytes(s) == 8 * s.count + 1

\* The reallocating path (lines 2144-2161).  Writing a pointer past the
\* allocated bytes is undefined behaviour (ub).
AppendInstRealloc(s, temp, ub) ==
  LET kept == [i \in 1..(s.count - 1) |-> tsequenceset_seq_n(s, i - 1)]
      sequences == kept \o temp
      k == Len(sequences)
      r == tsequenceset_make(sequences, FALSE)
  IN IF 8 * k > AppendInstPtrBytes(s) /\ ub = "crash"
     THEN [err |-> "crash", path |-> "realloc", ss |-> s]
     ELSE [r EXCEPT !.path = IF r.err = "none" THEN "realloc" ELSE "none"]

tsequenceset_append_tinstant(s, inst, expand, ub) ==
  LET last == tsequenceset_seq_n(s, s.count - 1)
      t == tsequence_append_tinstant(last, inst)
  IN IF t.err # "none" THEN Failed(t.err)
     ELSE
       LET temp == t.seqs
           count == IF Len(temp) = 1 THEN s.count ELSE s.count + 1
       IN IF expand /\ count <= s.maxcount /\ AppendInstSize(temp) <= AvailSize(s, last)
          THEN IF count = s.count THEN AppendInstInPlaceOne(s, temp)
               ELSE AppendInstInPlaceTwo(s, temp, ub)
          ELSE AppendInstRealloc(s, temp, ub)

-----------------------------------------------------------------------------
(* tsequenceset_find_timestamp                                             *)

\* A bug: a timestamp on the excluded lower bound is searched to the right
FindGoLeftStrict(seq, t) == t < Lower(seq)

\* The test of line 96: go on in the lower half
FindGoLeft(seq, t) == t <= Lower(seq)

\* A bug: a timestamp on the excluded upper bound counts as before the end
FindLocStrict(seq, t, middle) == IF t > Upper(seq) THEN middle + 1 ELSE middle

\* Lines 101-103: the location when the timestamp was not found
FindLoc(seq, t, middle) == IF t >= Upper(seq) THEN middle + 1 ELSE middle

\* The loop of lines 87-100 from (first, last), middle being that of the
\* previous iteration
RECURSIVE FindLoop(_, _, _, _, _)
FindLoop(s, t, first, last, middle) ==
  IF first > last
  THEN [found |-> FALSE, loc |-> FindLoc(tsequenceset_seq_n(s, middle), t, middle)]
  ELSE LET mid == (first + last) \div 2
           seq == tsequenceset_seq_n(s, mid)
       IN IF contains_period_timestamp(seq, t) THEN [found |-> TRUE, loc |-> mid]
          ELSE IF FindGoLeft(seq, t) THEN FindLoop(s, t, first, mid - 1, mid)
          ELSE FindLoop(s, t, mid + 1, last, mid)

tsequenceset_find_timestamp(s, t) == FindLoop(s, t, 0, s.count - 1, 0)

-----------------------------------------------------------------------------
(* The caller holds one sequence set ss; op records the last call: its     *)
(* arguments, the value of ss before it (old) and how it ended.            *)

NoOp == [name |-> "none", err |-> "none", path |-> "none", old |-> NullSS,
         seq |-> NoSeq, expand |-> FALSE, t |-> 0, found |-> FALSE, loc |-> 0]

\* Between two calls, holding a sequence set whose sequences can be read
Idle == op = NoOp /\ ss # NullSS /\ Decodable(ss)

Init ==
  /\ ss = NullSS
  /\ op = NoOp

\* ss = tsequenceset_make(sequences, count, normalize)
Make ==
  /\ ss = NullSS
  /\ op = NoOp
  /\ \E n \in 1..MaxMake : \E sequences \in [1..n -> InputSeqs] : \E normalize \in BOOLEAN :
       LET r == tsequenceset_make(sequences, normalize)
       IN /\ ss' = r.ss
          /\ op' = [NoOp EXCEPT !.name = "make", !.err = r.err, !.path = r.path]

\* ss = tsequenceset_append_tsequence(ss, seq, expand)
AppendSequence ==
  /\ Idle
  /\ \E seq \in InputSeqs : \E expand \in BOOLEAN :
       \E r \in {tsequenceset_append_tsequence(ss, seq, expand, ub) : ub \in UB} :
          /\ ss' = IF r.err = "none" \/ r.err = "crash" THEN r.ss ELSE ss
          /\ op' = [NoOp EXCEPT !.name = "append_seq", !.err = r.err, !.path = r.path,
                                !.old = ss, !.seq = seq, !.expand = expand]

\* ss = tsequenceset_append_tinstant(ss, inst, expand)
AppendInstant ==
  /\ Idle
  /\ \E inst \in [t : Times, v : Values] : \E expand \in BOOLEAN :
       \E r \in {tsequenceset_append_tinstant(ss, inst, expand, ub) : ub \in UB} :
          /\ ss' = IF r.err = "none" \/ r.err = "crash" THEN r.ss ELSE ss
          /\ op' = [NoOp EXCEPT !.name = "append_inst", !.err = r.err, !.path = r.path,
                                !.old = ss, !.seq = InstSeq(inst), !.expand = expand]

\* found = tsequenceset_find_timestamp(ss, t, &loc)
FindTimestamp ==
  /\ Idle
  /\ \E t \in (0 - 1)..(MaxT + 1) :
       LET r == tsequenceset_find_timestamp(ss, t)
       IN op' = [NoOp EXCEPT !.name = "find", !.old = ss, !.t = t,
                             !.found = r.found, !.loc = r.loc]
  /\ UNCHANGED ss

\* The call returned normally and the caller goes on with its result.  A call
\* that raised (elog(ERROR) does not return) or died ends the run, and so does
\* one that left a buffer whose sequences can no longer be read.
Continue ==
  /\ op # NoOp
  /\ op.err = "none"
  /\ op' = NoOp
  /\ UNCHANGED ss

Next == Make \/ AppendSequence \/ AppendInstant \/ FindTimestamp \/ Continue

Spec == Init /\ [][Next]_vars

-----------------------------------------------------------------------------
(* Claims                                                                  *)

\* The last call returned a sequence set whose sequences can all be read
Returned == op.err = "none" /\ ss # NullSS /\ Decodable(ss)

\* C1: after tsequenceset_make and any appends of instants or sequences
\* (expand or not, in place or reallocated, joining or not), totalcount is the
\* sum of the instant counts of the sequences.
C1_TotalInstants == Returned => ss.totalcount = SumInsts(Seqs(ss))

\* The append precondition of spec section 4.4 for a sequence: its first
\* timestamp is after the last one of s, or equal to it with the same value
\* and the upper bound of s exclusive
AppendPrecondition(s, seq) ==
  LET last == LastInst(tsequenceset_seq_n(s, s.count - 1))
  IN \/ FirstInst(seq).t > last.t
     \/ /\ FirstInst(seq).t = last.t
        /\ FirstInst(seq).v = last.v
        /\ ~s.period.upper_inc

\* The last call was an append of a sequence that returned
AppendedSeq == op.name = "append_seq" /\ op.err = "none"

\* No two consecutive sequences of s join: s is as the constructor normalises it
NormalizedSet(s) == tseqarr_normalize(Seqs(s)) = Seqs(s)

InPlaceSeq == op.name = "append_seq" /\ op.path \in {"inplace_join", "inplace_new"}

\* The last sequence of the set before the call joins the appended one
Joins == tsequence_join_test(tsequenceset_seq_n(op.old, op.old.count - 1), op.seq)

\* The last sequence of the set before the call and the appended one, as one
Joined == tsequence_append_tsequence(tsequenceset_seq_n(op.old, op.old.count - 1), op.seq)

\* C3: an append in place returns the same buffer; seq(i) is unchanged for
\* every i below the old count - 1, and the trailing positions hold the
\* rebuilt last sequence (join) or the old last sequence followed by the new
\* one (no join).
C3_InPlaceFrame ==
  InPlaceSeq =>
    /\ op.err = "none"
    /\ Len(ss.mem) = Len(op.old.mem)
    /\ ss.maxcount = op.old.maxcount
    /\ \A i \in 0..(op.old.count - 2) :
         tsequenceset_seq_n(ss, i) = tsequenceset_seq_n(op.old, i)
    /\ IF Joins
       THEN /\ ss.count = op.old.count
            /\ tsequenceset_seq_n(ss, ss.count - 1) = Joined
       ELSE /\ ss.count = op.old.count + 1
            /\ tsequenceset_seq_n(ss, ss.count - 2)
                 = tsequenceset_seq_n(op.old, op.old.count - 1)
            /\ tsequenceset_seq_n(ss, ss.count - 1) = op.seq

\* C4: in every sequence set, also with reserved capacity (maxcount > count),
\* the maxcount offset slots lie before the first sequence and offsets[i] is
\* the position of sequence i from the end of the slots, so that writing
\* offsets[count] touches no sequence and seq(i) does not move when count
\* grows.
C4_OffsetsBeforeData ==
  (op.err = "none" /\ ss # NullSS) =>
    \A i \in 0..(ss.count - 1) :
      SeqAddr(ss, i) = ss.maxcount + tsequenceset_offsets_ptr(ss, i)

\* C5 as stated: an append of a sequence is accepted only under the append
\* precondition; a smaller timestamp raises TimestampOrder and an equal one
\* with another value raises ValueMismatchAtJoin.
C5_AsStated ==
  op.name = "append_seq" =>
    LET inst1 == LastInst(tsequenceset_seq_n(op.old, op.old.count - 1))
        inst2 == FirstInst(op.seq)
    IN /\ (op.err \in {"none", "crash"} => AppendPrecondition(op.old, op.seq))
       /\ (inst2.t < inst1.t => op.err = "TimestampOrder")
       /\ ((inst2.t = inst1.t /\ inst2.v # inst1.v) => op.err = "ValueMismatchAtJoin")

\* C5 (amended): an append of a sequence raises TimestampOrder exactly when the
\* first timestamp of seq is smaller than the last one of ss, and
\* ValueMismatchAtJoin exactly when the two are equal, the upper bound of ss
\* and the lower bound of seq are both inclusive and the two values differ;
\* in every other case it is accepted.
C5_AppendChecks ==
  op.name = "append_seq" =>
    LET inst1 == LastInst(tsequenceset_seq_n(op.old, op.old.count - 1))
        inst2 == FirstInst(op.seq)
        shared == /\ inst2.t = inst1.t
                  /\ op.old.period.upper_inc
                  /\ op.seq.lower_inc
    IN /\ (op.err = "TimestampOrder" <=> inst2.t < inst1.t)
       /\ (op.err = "ValueMismatchAtJoin" <=> (shared /\ inst2.v # inst1.v))
       /\ op.err \in {"none", "crash", "TimestampOrder", "ValueMismatchAtJoin"}

\* An append at an equal timestamp was accepted: with an inclusive upper
\* bound and the same value, or with an exclusive one and another value
C5_Witness ==
  /\ op.name = "append_seq"
  /\ op.err = "none"
  /\ FirstInst(op.seq).t = LastInst(tsequenceset_seq_n(op.old, op.old.count - 1)).t
  /\ FirstInst(op.seq).v # LastInst(tsequenceset_seq_n(op.old, op.old.count - 1)).v
  /\ ~op.old.period.upper_inc
  /\ op.seq.lower_inc

\* C6: when the last sequence of ss and seq join, the result has as many
\* sequences as ss and only the last one is rebuilt, as their concatenation;
\* otherwise it has one more, those of ss unchanged and seq the last.
C6_JoinOrAppend ==
  (op.name = "append_seq" /\ op.err \in {"none", "crash"}) =>
    /\ op.err = "none"
    /\ IF Joins
       THEN Seqs(ss) = SubSeq(Seqs(op.old), 1, op.old.count - 1) \o <<Joined>>
       ELSE Seqs(ss) = Append(Seqs(op.old), op.seq)

\* C7: an append with expand = true that cannot be done in place returns a
\* fresh sequence set whose maxcount is twice that of the input, for
\* append_sequence and for append_instant.
C7_MaxcountDoubled ==
  (/\ op.name \in {"append_seq", "append_inst"}
   /\ op.expand
   /\ op.path = "realloc"
   /\ op.err = "none") => ss.maxcount = 2 * op.old.maxcount

\* The periods of the sequences are strictly ordered and pairwise disjoint
ValidSet(s) ==
  /\ Decodable(s)
  /\ \A i \in 1..s.count : ValidSeq(Seqs(s)[i])
  /\ ensure_valid_tseqarr(Seqs(s))

\* The sequence lies entirely before the timestamp
Before(seq, t) == Upper(seq) < t \/ (Upper(seq) = t /\ ~seq.upper_inc)

\* The last call was a search in a valid sequence set
Searched == op.name = "find" /\ ValidSet(op.old)

\* C8: in a valid sequence set, find_timestamp returns found with the index of
\* the one sequence whose period contains t when there is one, and otherwise
\* not found with the number of sequences lying before t.
C8_FindTimestamp ==
  Searched =>
    LET S == Seqs(op.old)
        holds == {i \in 1..Len(S) : contains_period_timestamp(S[i], op.t)}
    IN IF holds # {}
       THEN op.found /\ holds = {op.loc + 1}
       ELSE ~op.found /\ op.loc = Cardinality({i \in 1..Len(S) : Before(S[i], op.t)})

\* A search that ended between two sequences of a set of three or more
C8_Witness ==
  /\ Searched
  /\ op.old.count >= 3
  /\ ~op.found
  /\ op.loc \in 1..(op.old.count - 1)

\* The timestamp of the search is an excluded bound of sequence i (from 1)
OnExclLower(i) == Lower(Seqs(op.old)[i]) = op.t /\ ~Seqs(op.old)[i].lower_inc
OnExclUpper(i) == Upper(Seqs(op.old)[i]) = op.t /\ ~Seqs(op.old)[i].upper_inc

\* C9 as stated: when t is an exclusive bound, lower or upper, of a sequence,
\* find_timestamp returns not found and a location past that sequence.
C9_AsStated ==
  Searched =>
    \A i \in 1..op.old.count :
      (OnExclLower(i) \/ OnExclUpper(i)) => (~op.found /\ op.loc = i)

\* C9 (amended): when t is an exclusive bound of a sequence and no sequence
\* contains t, find_timestamp returns not found, with the location past that
\* sequence for its upper bound and the location of that sequence itself for
\* its lower bound; when a neighbour contains t it is found there.
C9_ExclusiveBound ==
  Searched =>
    \A i \in 1..op.old.count :
      LET S == Seqs(op.old)
          holds == {j \in 1..Len(S) : contains_period_timestamp(S[j], op.t)}
      IN /\ (OnExclUpper(i) /\ holds = {}) => (~op.found /\ op.loc = i)
         /\ (OnExclLower(i) /\ holds = {}) => (~op.found /\ op.loc = i - 1)
         /\ ((OnExclLower(i) \/ OnExclUpper(i)) /\ holds # {})
              => (op.found /\ op.loc + 1 \in holds /\ op.loc + 1 # i)

\* A search for the excluded lower bound of a sequence that is not the first
C9_Witness ==
  /\ Searched
  /\ ~op.found
  /\ \E i \in 2..op.old.count : OnExclLower(i)

\* C10: every sequence set returned by make and the appends has sequences
\* whose periods are strictly ordered and pairwise disjoint, two adjacent ones
\* touching at a timestamp only if one of them excludes it.
C10_OrderedDisjoint == (op.err = "none" /\ ss # NullSS) => ValidSet(ss)

-----------------------------------------------------------------------------
(* Time selectors.  Every bound is a whole timestamp, so a set of time     *)
(* points is a set of atoms: 2t stands for the timestamp t and 2t + 1 for  *)
(* the open interval (t, t + 1).                                           *)

\* The period of a sequence (seq->period)
SeqPeriod(s) ==
  [lower |-> Lower(s), upper |-> Upper(s),
   lower_inc |-> s.lower_inc, upper_inc |-> s.upper_inc]

\* The time points of a period
PeriodAtoms(p) ==
  { a \in (2 * p.lower)..(2 * p.upper) :
      /\ (a = 2 * p.lower => p.lower_inc)
      /\ (a = 2 * p.upper => p.upper_inc) }

SeqAtoms(s) == PeriodAtoms(SeqPeriod(s))

\* The time points of an array of periods, of an array of sequences
PeriodsAtoms(ps) == UNION {PeriodAtoms(ps[i]) : i \in 1..Len(ps)}
SeqsAtoms(seqs) == UNION {SeqAtoms(seqs[i]) : i \in 1..Len(seqs)}

\* The elements of a set of numbers in increasing order
RECURSIVE SortedSeq(_)
SortedSeq(S) ==
  IF S = {} THEN <<>>
  ELSE LET m == CHOOSE x \in S : \A y \in S : x <= y
       IN <<m>> \o SortedSeq(S \ {m})

\* The period from atom a to atom b
AtomsPeriod(a, b) ==
  [lower |-> a \div 2, upper |-> (b + 1) \div 2,
   lower_inc |-> (a % 2 = 0), upper_inc |-> (b % 2 = 0)]

\* The normalised periods that cover exactly the atoms of S, in time order
PeriodsOf(S) ==
  LET starts == SortedSeq({a \in S : (a - 1) \notin S})
      ends == SortedSeq({a \in S : (a + 1) \notin S})
  IN [i \in 1..Len(starts) |-> AtomsPeriod(starts[i], ends[i])]

\* left_span_span: every point of a is before every point of b
left_span_span(a, b) ==
  \/ a.upper < b.lower
  \/ (a.upper = b.lower /\ ~(a.upper_inc /\ b.lower_inc))

\* overlaps_span_span: the two periods share a point
overlaps_span_span(a, b) == ~left_span_span(a, b) /\ ~left_span_span(b, a)

\* contains_span_span: every point of b is one of a
contains_span_span(a, b) ==
  /\ (a.lower < b.lower \/ (a.lower = b.lower /\ (a.lower_inc \/ ~b.lower_inc)))
  /\ (b.upper < a.upper \/ (a.upper = b.upper /\ (a.upper_inc \/ ~b.upper_inc)))

\* The bounding span of a period set (ps->span)
SpanOf(ps) ==
  [lower |-> ps[1].lower, upper |-> ps[Len(ps)].upper,
   lower_inc |-> ps[1].lower_inc, upper_inc |-> ps[Len(ps)].upper_inc]

\* minus_spanset_span: what is left of each period of ps outside p, in order;
\* the empty array stands for NULL
RECURSIVE minus_spanset_span(_, _)
minus_spanset_span(ps, p) ==
  IF ps = <<>> THEN <<>>
  ELSE PeriodsOf(PeriodAtoms(Head(ps)) \ PeriodAtoms(p))
         \o minus_spanset_span(Tail(ps), p)

\* spanset_find_value: the index (from 0) of the period that contains t, or
\* the number of periods before t
spanset_find_value(ps, t) ==
  LET holds == {j \in 1..Len(ps) : 2 * t \in PeriodAtoms(ps[j])}
  IN IF holds # {} THEN (CHOOSE j \in holds : TRUE) - 1
     ELSE Cardinality({j \in 1..Len(ps) :
            ps[j].upper < t \/ (ps[j].upper = t /\ ~ps[j].upper_inc)})

-----------------------------------------------------------------------------
(* Operations on one sequence with linear interpolation.                   *)

\* The value of seq at a timestamp between its two bounds, whatever their
\* inclusivity
ValueAtSeq(seq, t) ==
  LET n == Len(seq.insts)
  IN IF \E i \in 1..n : seq.insts[i].t = t
     THEN seq.insts[CHOOSE i \in 1..n : seq.insts[i].t = t].v
     ELSE LET i == CHOOSE j \in 1..(n - 1) : seq.insts[j].t < t /\ t < seq.insts[j + 1].t
              a == seq.insts[i]
              b == seq.insts[i + 1]
          IN a.v + ((b.v - a.v) * (t - a.t)) \div (b.t - a.t)

\* The part of seq on the period r, which lies within the period of seq
SeqOnPeriod(seq, r) ==
  LET inner == SelectSeq(seq.insts, LAMBDA x : r.lower < x.t /\ x.t < r.upper)
      first == [t |-> r.lower, v |-> ValueAtSeq(seq, r.lower)]
      last == [t |-> r.upper, v |-> ValueAtSeq(seq, r.upper)]
  IN [insts |-> IF r.lower = r.upper THEN <<first>> ELSE <<first>> \o inner \o <<last>>,
      lower_inc |-> r.lower_inc, upper_inc |-> r.upper_inc]

\* The parts of seq on the atoms of S, in time order
SeqOnAtoms(seq, S) ==
  LET ps == PeriodsOf(SeqAtoms(seq) \cap S)
  IN [i \in 1..Len(ps) |-> SeqOnPeriod(seq, ps[i])]

\* The parts of seq outside the atoms of S, in time order
SeqMinusAtoms(seq, S) ==
  LET ps == PeriodsOf(SeqAtoms(seq) \ S)
  IN [i \in 1..Len(ps) |-> SeqOnPeriod(seq, ps[i])]

\* tcontseq_at_period: the part of seq on p, NoSeq standing for NULL
tcontseq_at_period(seq, p) ==
  LET parts == SeqOnAtoms(seq, PeriodAtoms(p))
  IN IF parts = <<>> THEN NoSeq ELSE parts[1]

\* tsequence_at_timestamp, tcontseq_at_timestamp: the instant of seq at t as a
\* sequence of one instant, NoSeq standing for NULL
tsequence_at_timestamp(seq, t) ==
  IF contains_period_timestamp(seq, t)
  THEN InstSeq([t |-> t, v |-> ValueAtSeq(seq, t)])
  ELSE NoSeq

\* tcontseq_minus_timestamp1: the parts of seq without the timestamp t
tcontseq_minus_timestamp1(seq, t) == SeqMinusAtoms(seq, {2 * t})

\* tcontseq_minus_periodset1: the parts of seq outside the periods of ps from
\* index from (from 0) on
tcontseq_minus_periodset1(seq, ps, from) ==
  SeqMinusAtoms(seq, PeriodsAtoms(SubSeq(ps, from + 1, Len(ps))))

\* tsequence_value_at_timestamp: found and the value of seq at t; with strict
\* false also at an excluded bound
tsequence_value_at_timestamp(seq, t, strict) ==
  IF contains_period_timestamp(seq, t) \/ (~strict /\ (t = Lower(seq) \/ t = Upper(seq)))
  THEN [found |-> TRUE, v |-> ValueAtSeq(seq, t)]
  ELSE [found |-> FALSE, v |-> 0]

-----------------------------------------------------------------------------
(* Value at a timestamp and restriction to time selectors.  A result is    *)
(* Null (the NULL pointer), a sequence set, or for at-timestamp an instant *)
(* (path "instant"), held as the set of its one-instant sequence.          *)

Null == Done("null", NullSS)

\* contains_period_timestamp on the bounding period of a sequence set
PeriodContains(p, t) == (2 * t) \in PeriodAtoms(p)

tsequenceset_make_free(sequences, normalize) ==
  IF sequences = <<>> THEN Null ELSE tsequenceset_make(sequences, normalize)

tsequenceset_copy(s) == Done("copy", s)

tsequence_to_tsequenceset(seq) == tsequenceset_make(<<seq>>, FALSE)

\* An instant returned as a temporal value
InstantResult(seq) ==
  IF seq = NoSeq THEN Null
  ELSE [tsequenceset_make(<<seq>>, FALSE) EXCEPT !.path = "instant"]

tsequenceset_time(s) == [i \in 1..s.count |-> SeqPeriod(tsequenceset_seq_n(s, i - 1))]

\* A bug: only the first instant of the sequence is tested
ValueAtBoundFirst(seq, t) ==
  IF FirstInst(seq).t = t THEN [found |-> TRUE, v |-> FirstInst(seq).v]
  ELSE [found |-> FALSE, v |-> 0]

\* Lines 1163-1168: the value when t is at one of the bounds of seq
ValueAtBound(seq, t) ==
  IF FirstInst(seq).t = t THEN [found |-> TRUE, v |-> FirstInst(seq).v]
  ELSE IF LastInst(seq).t = t THEN [found |-> TRUE, v |-> LastInst(seq).v]
  ELSE [found |-> FALSE, v |-> 0]

\* The loop of lines 1159-1172 from sequence i on
RECURSIVE ValueAtLoop(_, _, _)
ValueAtLoop(s, t, i) ==
  IF i >= s.count THEN [found |-> FALSE, v |-> 0]
  ELSE LET seq == tsequenceset_seq_n(s, i)
       IN IF ValueAtBound(seq, t).found THEN ValueAtBound(seq, t)
          ELSE IF contains_period_timestamp(seq, t)
               THEN tsequence_value_at_timestamp(seq, t, TRUE)
               ELSE ValueAtLoop(s, t, i + 1)

tsequenceset_value_at_timestamp(s, t, strict) ==
  IF ~strict
  THEN IF s.count = 1
       THEN tsequence_value_at_timestamp(tsequenceset_seq_n(s, 0), t, FALSE)
       ELSE ValueAtLoop(s, t, 0)
  ELSE IF s.count = 1
       THEN tsequence_value_at_timestamp(tsequenceset_seq_n(s, 0), t, TRUE)
       ELSE LET f == tsequenceset_find_timestamp(s, t)
            IN IF ~f.found THEN [found |-> FALSE, v |-> 0]
               ELSE tsequence_value_at_timestamp(tsequenceset_seq_n(s, f.loc), t, TRUE)

\* The sequences of s from index i (from 0) on
SeqsFrom(s, i) == [n \in 1..(s.count - i) |-> tsequenceset_seq_n(s, i + n - 1)]

\* A bug: the loop also stops at a sequence that ends at t
MinusTimestampDoneAtEnd(seq, t) == t <= Upper(seq)

\* Line 1794: no later sequence holds t
MinusTimestampDone(seq, t) == t < Upper(seq)

\* The loop of lines 1790-1802 from sequence i on
RECURSIVE MinusTimestampLoop(_, _, _, _)
MinusTimestampLoop(s, t, i, sequences) ==
  IF i >= s.count THEN sequences
  ELSE LET seq == tsequenceset_seq_n(s, i)
           more == sequences \o tcontseq_minus_timestamp1(seq, t)
       IN IF MinusTimestampDone(seq, t) THEN more \o SeqsFrom(s, i + 1)
          ELSE MinusTimestampLoop(s, t, i + 1, more)

tsequenceset_restrict_timestamp(s, t, atfunc) ==
  IF ~PeriodContains(s.period, t)
  THEN IF atfunc THEN Null ELSE tsequenceset_copy(s)
  ELSE IF s.count = 1
  THEN IF atfunc THEN InstantResult(tsequence_at_timestamp(tsequenceset_seq_n(s, 0), t))
       ELSE tsequenceset_make_free(
              tcontseq_minus_timestamp1(tsequenceset_seq_n(s, 0), t), FALSE)
  ELSE IF atfunc
  THEN LET f == tsequenceset_find_timestamp(s, t)
       IN IF ~f.found THEN Null
          ELSE InstantResult(tsequence_at_timestamp(tsequenceset_seq_n(s, f.loc), t))
  ELSE tsequenceset_make_free(MinusTimestampLoop(s, t, 0, <<>>), FALSE)

\* A bug: the inclusivity of the upper bound of the sequence is not looked at
AtPeriodDoneAnyBound(seq, p) == p.upper <= Upper(seq)

\* Lines 1939-1942: no later sequence overlaps p
AtPeriodDone(seq, p) ==
  p.upper < Upper(seq) \/ (p.upper = Upper(seq) /\ seq.upper_inc)

\* The loop of lines 1929-1943 from sequence i on
RECURSIVE AtPeriodLoop(_, _, _, _)
AtPeriodLoop(s, p, i, sequences) ==
  IF i >= s.count THEN sequences
  ELSE LET seq == tsequenceset_seq_n(s, i)
           more == IF contains_span_span(p, SeqPeriod(seq)) THEN Append(sequences, seq)
                   ELSE IF overlaps_span_span(p, SeqPeriod(seq))
                        THEN Append(sequences, tcontseq_at_period(seq, p))
                        ELSE sequences
       IN IF AtPeriodDone(seq, p) THEN more
          ELSE AtPeriodLoop(s, p, i + 1, more)

\* A bug: both cursors move after every intersection
AtAdvanceBoth(seq, p) == <<1, 1>>

\* Lines 2027-2037: which of the two cursors move after an intersection
AtAdvance(seq, p) ==
  IF Upper(seq) = p.upper /\ seq.upper_inc = p.upper_inc THEN <<1, 1>>
  ELSE IF Upper(seq) < p.upper \/ (Upper(seq) = p.upper /\ ~seq.upper_inc /\ p.upper_inc)
       THEN <<1, 0>>
       ELSE <<0, 1>>

\* The loop of lines 2007-2051 from sequence i and period j on
RECURSIVE PeriodSetLoop(_, _, _, _, _, _)
PeriodSetLoop(s, ps, atfunc, i, j, sequences) ==
  IF ~(i < s.count /\ j < Len(ps))
  THEN IF atfunc THEN sequences ELSE sequences \o SeqsFrom(s, i)
  ELSE LET seq == tsequenceset_seq_n(s, i)
           p == ps[j + 1]
       IN IF left_span_span(SeqPeriod(seq), p)
          THEN PeriodSetLoop(s, ps, atfunc, i + 1, j,
                             IF atfunc THEN sequences ELSE Append(sequences, seq))
          ELSE IF overlaps_span_span(SeqPeriod(seq), p)
          THEN IF atfunc
               THEN LET seq1 == tcontseq_at_period(seq, p)
                        adv == AtAdvance(seq, p)
                    IN PeriodSetLoop(s, ps, atfunc, i + adv[1], j + adv[2],
                         IF seq1 # NoSeq THEN Append(sequences, seq1) ELSE sequences)
               ELSE PeriodSetLoop(s, ps, atfunc, i + 1, j,
                         sequences \o tcontseq_minus_periodset1(seq, ps, j))
          ELSE PeriodSetLoop(s, ps, atfunc, i, j + 1, sequences)

\* The pieces of seq on each period of ps in turn
RECURSIVE AtPeriodsOfSeq(_, _)
AtPeriodsOfSeq(seq, ps) ==
  IF ps = <<>> THEN <<>>
  ELSE LET seq1 == tcontseq_at_period(seq, Head(ps))
       IN (IF seq1 = NoSeq THEN <<>> ELSE <<seq1>>) \o AtPeriodsOfSeq(seq, Tail(ps))

\* tcontseq_restrict_periodset: a sequence restricted to a period set
tcontseq_restrict_periodset(seq, ps, atfunc) ==
  IF atfunc THEN tsequenceset_make_free(AtPeriodsOfSeq(seq, ps), TRUE)
  ELSE tsequenceset_make_free(tcontseq_minus_periodset1(seq, ps, 0), TRUE)

\* tcontseq_minus_period: a sequence without a period
tcontseq_minus_period(seq, p) ==
  tsequenceset_make_free(SeqMinusAtoms(seq, PeriodAtoms(p)), FALSE)

\* A bug: the walk of minus starts at the second sequence
PeriodSetStartSecond(s, ps, atfunc) ==
  LET t == IF s.period.lower >= ps[1].lower THEN s.period.lower ELSE ps[1].lower
  IN IF atfunc THEN <<tsequenceset_find_timestamp(s, t).loc, spanset_find_value(ps, t)>>
     ELSE <<1, 0>>

\* Lines 1996-2006: the sequence and the period where the walk starts
PeriodSetStart(s, ps, atfunc) ==
  LET t == IF s.period.lower >= ps[1].lower THEN s.period.lower ELSE ps[1].lower
  IN IF atfunc THEN <<tsequenceset_find_timestamp(s, t).loc, spanset_find_value(ps, t)>>
     ELSE <<0, 0>>

RECURSIVE tsequenceset_restrict_periodset(_, _, _)

tsequenceset_restrict_period(s, p, atfunc) ==
  IF ~overlaps_span_span(s.period, p)
  THEN IF atfunc THEN Null ELSE tsequenceset_copy(s)
  ELSE IF s.count = 1
  THEN IF atfunc
       THEN tsequence_to_tsequenceset(tcontseq_at_period(tsequenceset_seq_n(s, 0), p))
       ELSE tcontseq_minus_period(tsequenceset_seq_n(s, 0), p)
  ELSE IF atfunc
  THEN LET loc == tsequenceset_find_timestamp(s, p.lower).loc
           sequences == AtPeriodLoop(s, p, loc, <<>>)
       IN IF sequences = <<>> THEN Null ELSE tsequenceset_make(sequences, FALSE)
  ELSE LET resultps == minus_spanset_span(tsequenceset_time(s), p)
       IN IF resultps = <<>> THEN Null
          ELSE tsequenceset_restrict_periodset(s, resultps, TRUE)

tsequenceset_restrict_periodset(s, ps, atfunc) ==
  IF Len(ps) = 1 THEN tsequenceset_restrict_period(s, ps[1], atfunc)
  ELSE IF ~overlaps_span_span(s.period, SpanOf(ps))
  THEN IF atfunc THEN Null ELSE tsequenceset_copy(s)
  ELSE IF s.count = 1
  THEN tcontseq_restrict_periodset(tsequenceset_seq_n(s, 0), ps, atfunc)
  ELSE LET start == PeriodSetStart(s, ps, atfunc)
       IN tsequenceset_make_free(
            PeriodSetLoop(s, ps, atfunc, start[1], start[2], <<>>), TRUE)

-----------------------------------------------------------------------------
(* Calls of the read-only operations on sequence sets built by the         *)
(* constructor.  The values are multiples of Scale, so that the linear     *)
(* interpolation at every whole timestamp is a whole number.               *)

RECURSIVE Factorial(_)
Factorial(n) == IF n <= 1 THEN 1 ELSE n * Factorial(n - 1)

Scale == Factorial(MaxT)

\* The input sequences with their values scaled
ScaledSeqs ==
  { [s EXCEPT !.insts = [i \in 1..Len(s.insts) |->
                           [t |-> s.insts[i].t, v |-> Scale * s.insts[i].v]]] :
      s \in InputSeqs }

\* The sequence sets the constructor accepts, normalised or not
InputSets ==
  { tsequenceset_make(sequences, normalize).ss :
      sequences \in { a \in UNION {[1..n -> ScaledSeqs] : n \in 1..MaxMake} :
                        ensure_valid_tseqarr(a) },
      normalize \in BOOLEAN }

\* The periods and the period sets over the timestamps of the model
Periods ==
  { p \in [lower : Times, upper : Times, lower_inc : BOOLEAN, upper_inc : BOOLEAN] :
      p.lower < p.upper \/ (p.lower = p.upper /\ p.lower_inc /\ p.upper_inc) }

PeriodSets == { PeriodsOf(S) : S \in (SUBSET (0..(2 * MaxT))) \ {{}} }

RNoOp == [name |-> "none", atfunc |-> FALSE, strict |-> FALSE, t |-> 0,
          ps |-> <<>>, res |-> Null, val |-> [found |-> FALSE, v |-> 0]]

RInit ==
  /\ ss \in InputSets
  /\ op = RNoOp

\* found = tsequenceset_value_at_timestamp(ss, t, strict, &result)
ValueAtTimestamp ==
  /\ op = RNoOp
  /\ \E t \in (0 - 1)..(MaxT + 1) : \E strict \in BOOLEAN :
       op' = [RNoOp EXCEPT !.name = "value_at", !.t = t, !.strict = strict,
                           !.val = tsequenceset_value_at_timestamp(ss, t, strict)]
  /\ UNCHANGED ss

\* tsequenceset_restrict_timestamp(ss, t, atfunc)
RestrictTimestamp ==
  /\ op = RNoOp
  /\ \E t \in (0 - 1)..(MaxT + 1) : \E atfunc \in BOOLEAN :
       op' = [RNoOp EXCEPT !.name = "restrict_timestamp", !.t = t, !.atfunc = atfunc,
                           !.res = tsequenceset_restrict_timestamp(ss, t, atfunc)]
  /\ UNCHANGED ss

\* tsequenceset_restrict_period(ss, p, atfunc)
RestrictPeriod ==
  /\ op = RNoOp
  /\ \E p \in Periods : \E atfunc \in BOOLEAN :
       op' = [RNoOp EXCEPT !.name = "restrict_period", !.ps = <<p>>, !.atfunc = atfunc,
                           !.res = tsequenceset_restrict_period(ss, p, atfunc)]
  /\ UNCHANGED ss

\* tsequenceset_restrict_periodset(ss, ps, atfunc)
RestrictPeriodSet ==
  /\ op = RNoOp
  /\ \E ps \in PeriodSets : \E atfunc \in BOOLEAN :
       op' = [RNoOp EXCEPT !.name = "restrict_periodset", !.ps = ps, !.atfunc = atfunc,
                           !.res = tsequenceset_restrict_periodset(ss, ps, atfunc)]
  /\ UNCHANGED ss

RNext == ValueAtTimestamp \/ RestrictTimestamp \/ RestrictPeriod \/ RestrictPeriodSet

RSpec == RInit /\ [][RNext]_vars

-----------------------------------------------------------------------------
(* Claims on restriction and value at a timestamp                          *)

\* The sequences of a result, none for Null
ResSeqs(r) == IF r.ss = NullSS THEN <<>> ELSE Seqs(r.ss)

\* The time support of a result, of a sequence set
Support(r) == SeqsAtoms(ResSeqs(r))
TimeOf(s) == SeqsAtoms(Seqs(s))

\* The result is Null or a sequence set of valid, ordered, disjoint sequences
WellFormed(r) == r.err = "none" /\ (r.ss # NullSS => ValidSet(r.ss))

\* The value at timestamp t of the sequence of seqs that covers atom a
ValOn(seqs, a, t) ==
  ValueAtSeq(seqs[CHOOSE i \in 1..Len(seqs) : a \in SeqAtoms(seqs[i])], t)

\* The arrays x and y of sequences define the same values on the atoms of S
Agrees(x, y, S) ==
  \A a \in S : \A t \in {a \div 2, (a + 1) \div 2} : ValOn(x, a, t) = ValOn(y, a, t)

\* The last call was a restriction to a time selector
Restricted == op.name \in {"restrict_timestamp", "restrict_period", "restrict_periodset"}

\* The time points of the selector of the last call
SelAtoms == IF op.name = "restrict_timestamp" THEN {2 * op.t} ELSE PeriodsAtoms(op.ps)

\* The restriction of s to the selector of the last call
Again(s, atfunc) ==
  IF op.name = "restrict_timestamp" THEN tsequenceset_restrict_timestamp(s, op.t, atfunc)
  ELSE IF op.name = "restrict_period" THEN tsequenceset_restrict_period(s, op.ps[1], atfunc)
  ELSE tsequenceset_restrict_periodset(s, op.ps, atfunc)

\* C15: for every sequence set and time selector, at and minus have disjoint
\* time supports whose union is the time of the sequence set, and each agrees
\* with the sequence set on its own support.
C15_RestrictionDuality ==
  Restricted =>
    LET other == Again(ss, ~op.atfunc)
    IN /\ WellFormed(op.res) /\ WellFormed(other)
       /\ Support(op.res) \cap Support(other) = {}
       /\ Support(op.res) \cup Support(other) = TimeOf(ss)
       /\ Agrees(ResSeqs(op.res), Seqs(ss), Support(op.res))
       /\ Agrees(ResSeqs(other), Seqs(ss), Support(other))

\* A period set cut a sequence set of several sequences in two non-empty parts
C15_Witness ==
  /\ op.name = "restrict_periodset"
  /\ Len(op.ps) >= 2
  /\ ss.count >= 2
  /\ op.res.ss # NullSS
  /\ Support(op.res) # TimeOf(ss)

\* The complement of the period set of the last call within the time of ss
Complement == PeriodsOf(TimeOf(ss) \ PeriodsAtoms(op.ps))

\* The last call took the dedicated minus path of restrict_periodset
MinusPath ==
  /\ op.name = "restrict_periodset"
  /\ ~op.atfunc
  /\ Len(op.ps) >= 2
  /\ ss.count >= 2

\* at on the complement of the period set of the last call
AtComplement ==
  IF Complement = <<>> THEN Null
  ELSE tsequenceset_restrict_periodset(ss, Complement, TRUE)

C17_RestrictPeriod ==
  op.name = "restrict_period" =>
    /\ WellFormed(op.res)
    /\ Support(op.res) = IF op.atfunc THEN TimeOf(ss) \cap PeriodAtoms(op.ps[1])
                         ELSE TimeOf(ss) \ PeriodAtoms(op.ps[1])
    /\ (op.res.ss = NullSS <=> Support(op.res) = {})

\* minus of a period with inclusive bounds left two parts of one sequence
C17_Witness ==
  /\ op.name = "restrict_period"
  /\ ~op.atfunc
  /\ op.ps[1].lower_inc /\ op.ps[1].upper_inc
  /\ ss.count >= 2
  /\ op.res.ss # NullSS
  /\ op.res.ss.count > ss.count

\* C18: restricting the non-empty result of at (of minus) once more to the
\* same selector with at (with minus) returns the same sequence set.
C18_Idempotence ==
  (Restricted /\ op.res.ss # NullSS /\ op.res.path # "instant") =>
    LET twice == Again(op.res.ss, op.atfunc)
    IN twice.err = "none" /\ ResSeqs(twice) = ResSeqs(op.res)

\* at of a period set kept a proper, non-empty part of several sequences
C18_Witness ==
  /\ op.name = "restrict_periodset"
  /\ op.atfunc
  /\ Len(op.ps) >= 2
  /\ ss.count >= 2
  /\ op.res.ss # NullSS
  /\ Support(op.res) # TimeOf(ss)

\* The sequences of ss whose period contains t; those with t as excluded bound
Containing(t) == {i \in 1..ss.count : contains_period_timestamp(Seqs(ss)[i], t)}
Bounding(t) ==
  {i \in 1..ss.count :
     /\ ~contains_period_timestamp(Seqs(ss)[i], t)
     /\ (Lower(Seqs(ss)[i]) = t \/ Upper(Seqs(ss)[i]) = t)}

-----------------------------------------------------------------------------
(* Modification: tsequenceset_insert and tsequenceset_update               *)

\* tsequence_make(instants, count, true, true, interp, NORMALIZE_NO) of the
\* gap between two instants: one instant when the two timestamps are equal
GapSequence(inst1, inst2) ==
  [insts |-> IF inst1.t = inst2.t THEN <<inst1>> ELSE <<inst1, inst2>>,
   lower_inc |-> TRUE, upper_inc |-> TRUE]

\* The gap sequence between two sequences when both facing bounds are
\* inclusive, as an array of zero or one sequence
FillGap(a, b) ==
  IF a.upper_inc /\ b.lower_inc THEN <<GapSequence(LastInst(a), FirstInst(b))>>
  ELSE <<>>

\* Order of two sequences by their periods
SeqBefore(a, b) ==
  \/ Lower(a) < Lower(b)
  \/ Lower(a) = Lower(b) /\ a.lower_inc /\ ~b.lower_inc
  \/ Lower(a) = Lower(b) /\ a.lower_inc = b.lower_inc /\ Upper(a) < Upper(b)

RECURSIVE SortSeqs(_)
SortSeqs(seqs) ==
  IF Len(seqs) <= 1 THEN seqs
  ELSE LET rest == SortSeqs(Tail(seqs))
           h == Head(seqs)
           n == Cardinality({i \in 1..Len(rest) : SeqBefore(rest[i], h)})
       IN SubSeq(rest, 1, n) \o <<h>> \o SubSeq(rest, n + 1, Len(rest))

\* The walk of tsequence_merge_array1 over the sorted sequences: sequences
\* that overlap on more than an instant are refused, those that share an
\* inclusive instant must agree on its value and are merged
RECURSIVE MergeFrom(_, _)
MergeFrom(acc, rest) ==
  IF rest = <<>> THEN [err |-> "none", seqs |-> acc]
  ELSE LET l == acc[Len(acc)]
           s == Head(rest)
       IN IF Upper(l) > Lower(s) THEN [err |-> "InvalidOrder", seqs |-> <<>>]
          ELSE IF Upper(l) = Lower(s) /\ l.upper_inc /\ s.lower_inc
          THEN IF LastInst(l).v # FirstInst(s).v
               THEN [err |-> "ValueMismatchAtJoin", seqs |-> <<>>]
               ELSE MergeFrom(SubSeq(acc, 1, Len(acc) - 1)
                                \o <<tsequence_append_tsequence(l, s)>>, Tail(rest))
          ELSE MergeFrom(Append(acc, s), Tail(rest))

tsequence_merge_array1(sequences) ==
  LET sorted == SortSeqs(sequences)
  IN MergeFrom(<<Head(sorted)>>, Tail(sorted))

\* Lines 2308-2328
tsequenceset_merge_array(seqsets) ==
  LET sequences == IF Len(seqsets) = 2 THEN Seqs(seqsets[1]) \o Seqs(seqsets[2])
                   ELSE Seqs(seqsets[1]) \o Seqs(seqsets[2]) \o Seqs(seqsets[3])
      merged == tsequence_merge_array1(sequences)
  IN IF merged.err # "none" THEN Failed(merged.err)
     ELSE tsequenceset_make_free(merged.seqs, TRUE)

\* tcontseq_insert: the two sequences in order, the gap between them filled
\* when both facing bounds are inclusive, merged
tcontseq_insert(seq1, seq2) ==
  LET a == IF left_span_span(SeqPeriod(seq2), SeqPeriod(seq1)) THEN seq2 ELSE seq1
      b == IF left_span_span(SeqPeriod(seq2), SeqPeriod(seq1)) THEN seq1 ELSE seq2
      gap == IF left_span_span(SeqPeriod(a), SeqPeriod(b)) THEN FillGap(a, b) ELSE <<>>
      merged == tsequence_merge_array1(<<a>> \o gap \o <<b>>)
  IN IF merged.err # "none" THEN Failed(merged.err)
     ELSE tsequenceset_make_free(merged.seqs, FALSE)

\* Lines 2789-2811: the values at the instants that seq2 shares with the last
\* sequence added and with seq1
InsertMismatch(last, seq2, seq1) ==
  \/ /\ Upper(last) = Lower(seq2)
     /\ last.upper_inc /\ seq2.lower_inc
     /\ LastInst(last).v # FirstInst(seq2).v
  \/ /\ Upper(seq2) = Lower(seq1)
     /\ seq2.upper_inc /\ seq1.lower_inc
     /\ LastInst(seq2).v # FirstInst(seq1).v

\* The while loop of lines 2780-2848 and the copy of the remaining sequences
\* (lines 2849-2853); i, j count the sequences of ss1, ss2 from 0
RECURSIVE InsertLoop(_, _, _, _, _)
InsertLoop(ss1, ss2, i, j, sequences) ==
  IF i < ss1.count /\ j < ss2.count
  THEN LET seq1 == tsequenceset_seq_n(ss1, i)
           seq2 == tsequenceset_seq_n(ss2, j)
           last == sequences[Len(sequences)]
       IN IF Upper(last) <= Lower(seq2) /\ Upper(seq2) <= Lower(seq1)
          THEN IF InsertMismatch(last, seq2, seq1)
               THEN [err |-> "ValueMismatchAtJoin", seqs |-> <<>>]
               ELSE InsertLoop(ss1, ss2, i + 1, j + 1,
                      sequences \o FillGap(last, seq2) \o <<seq2>> \o FillGap(seq2, seq1))
          ELSE InsertLoop(ss1, ss2, i + 1, j, Append(sequences, seq1))
  ELSE [err |-> "none", seqs |-> sequences \o SeqsFrom(ss1, i) \o SeqsFrom(ss2, j)]

\* Lines 2709-2860
tsequenceset_insert(a, b) ==
  LET seq1 == tsequenceset_seq_n(a, 0)
      seq2 == tsequenceset_seq_n(b, 0)
      swap == left_span_span(SeqPeriod(seq2), SeqPeriod(seq1))
      ss1 == IF swap THEN b ELSE a
      ss2 == IF swap THEN a ELSE b
  IN IF ss1.count = 1 /\ ss2.count = 1 THEN tcontseq_insert(seq1, seq2)
     ELSE IF left_span_span(ss1.period, ss2.period)
     THEN IF ss1.period.upper_inc /\ ss2.period.lower_inc
          THEN LET l == tsequenceset_seq_n(ss1, ss1.count - 1)
                   f == tsequenceset_seq_n(ss2, 0)
                   gap == tsequence_to_tsequenceset(
                            GapSequence(LastInst(l), FirstInst(f))).ss
               IN tsequenceset_merge_array(<<ss1, gap, ss2>>)
          ELSE tsequenceset_merge_array(<<ss1, ss2>>)
     ELSE LET r == InsertLoop(ss1, ss2, 1, 0, <<tsequenceset_seq_n(ss1, 0)>>)
          IN IF r.err # "none" THEN Failed(r.err)
             ELSE tsequenceset_make_free(tseqarr_normalize(r.seqs), FALSE)

\* Lines 2866-2877
tsequenceset_update(ss1, ss2) ==
  LET ps == tsequenceset_time(ss2)
      rest == tsequenceset_restrict_periodset(ss1, ps, FALSE)
  IN IF rest.ss = NullSS THEN tsequenceset_copy(ss2)
     ELSE tsequenceset_insert(rest.ss, ss2)

-----------------------------------------------------------------------------
(* Modification: tsequenceset_delete_period, tsequenceset_delete_periodset  *)

\* The pieces of a sequence that remain after a deletion, two consecutive
\* pieces stitched into one when the values at the two ends of the hole are
\* equal
RECURSIVE StitchFrom(_, _)
StitchFrom(acc, rest) ==
  IF rest = <<>> THEN acc
  ELSE LET l == acc[Len(acc)]
           s == Head(rest)
       IN IF LastInst(l).v = FirstInst(s).v
          THEN StitchFrom(
                 SubSeq(acc, 1, Len(acc) - 1)
                   \o <<[insts |-> l.insts
                                     \o (IF LastInst(l).t = FirstInst(s).t
                                         THEN Tail(s.insts) ELSE s.insts),
                         lower_inc |-> l.lower_inc, upper_inc |-> s.upper_inc]>>,
                 Tail(rest))
          ELSE StitchFrom(Append(acc, s), Tail(rest))

\* tcontseq_delete_periodset, with tsequence_to_tsequenceset of its result
tcontseq_delete_periodset(seq, ps) ==
  LET pieces == SeqMinusAtoms(seq, PeriodsAtoms(ps))
  IN IF pieces = <<>> THEN Null
     ELSE tsequenceset_make_free(StitchFrom(<<Head(pieces)>>, Tail(pieces)), FALSE)

\* Lines 3024-3031: the periods before or adjacent to the first sequence of
\* minus are skipped
RECURSIVE DeleteSkip(_, _, _)
DeleteSkip(ps, seq, j) ==
  IF j < Len(ps) /\ ~(ps[j + 1].upper > Lower(seq)) THEN DeleteSkip(ps, seq, j + 1)
  ELSE j

\* Lines 3035-3036 as written: timestamptz_cmp_internal(p->upper,
\* (seq->period.lower <= 0)) is not zero
DeleteFills(p, seq) == p.upper # B2I(Lower(seq) <= 0)

\* The loops of lines 3033-3054 over minus, whose bound n is the number of
\* sequences of ss; i, j count from 0
RECURSIVE DeleteLoop(_, _, _, _, _, _)
DeleteLoop(minus, n, ps, i, j, sequences) ==
  IF i >= n THEN sequences
  ELSE LET seq == tsequenceset_seq_n(minus, i)
           last == sequences[Len(sequences)]
       IN IF j < Len(ps)
          THEN DeleteLoop(minus, n, ps, i + 1, j + 1,
                 sequences
                   \o (IF DeleteFills(ps[j + 1], seq)
                       THEN <<GapSequence(LastInst(last), FirstInst(seq))>> ELSE <<>>)
                   \o <<seq>>)
          ELSE DeleteLoop(minus, n, ps, i + 1, j, Append(sequences, seq))

\* Lines 3018-3054: the array of sequences built from the first n
\* sequences of minus
DeleteSequences(minus, n, ps) ==
  DeleteLoop(minus, n, ps, 1, DeleteSkip(ps, tsequenceset_seq_n(minus, 0), 0),
             <<tsequenceset_seq_n(minus, 0)>>)

\* Lines 3055-3061: the result built from the array
DeleteResult(minus, n, ps) ==
  tsequenceset_make_free(tseqarr_normalize(DeleteSequences(minus, n, ps)), FALSE)

\* The general case, lines 3011-3061.  minus is dereferenced when it is NULL
\* (line 3014) and its sequences are read up to the number of sequences of
\* ss, which may be more than it has (lines 3032, 3049, 3054): both are
\* undefined behaviour, and ub is what the build makes of it: the process
\* dies ("crash") or the sequences that do not exist are left out ("skip").
DeleteGeneral(s, minus, ps, ub) ==
  IF minus = NullSS \/ minus.count < s.count
  THEN IF ub = "crash" THEN Failed("crash")
       ELSE IF minus = NullSS THEN [Null EXCEPT !.path = "undefined"]
       ELSE [DeleteResult(minus, minus.count, ps) EXCEPT !.path = "undefined"]
  ELSE DeleteResult(minus, s.count, ps)

\* Lines 2989-3062
tsequenceset_delete_periodset(s, ps, ub) ==
  IF ~overlaps_span_span(s.period, SpanOf(ps)) THEN tsequenceset_copy(s)
  ELSE IF s.count = 1 THEN tcontseq_delete_periodset(tsequenceset_seq_n(s, 0), ps)
  ELSE DeleteGeneral(s, tsequenceset_restrict_periodset(s, ps, FALSE).ss, ps, ub)

\* Lines 2975-2982
tsequenceset_delete_period(s, p, ub) == tsequenceset_delete_periodset(s, <<p>>, ub)

-----------------------------------------------------------------------------
(* The modifications of a sequence set built by the constructor: one call  *)
(* per behaviour, its second argument and its result recorded in op.        *)

MNoOp == [name |-> "none", b |-> NullSS, ps |-> <<>>, res |-> Null]

MInit ==
  /\ ss \in InputSets
  /\ op = MNoOp

Insert ==
  /\ op = MNoOp
  /\ \E b \in InputSets :
       op' = [name |-> "insert", b |-> b, ps |-> <<>>,
              res |-> tsequenceset_insert(ss, b)]
  /\ UNCHANGED ss

Update ==
  /\ op = MNoOp
  /\ \E b \in InputSets :
       op' = [name |-> "update", b |-> b, ps |-> <<>>,
              res |-> tsequenceset_update(ss, b)]
  /\ UNCHANGED ss

DeletePeriod ==
  /\ op = MNoOp
  /\ \E p \in Periods, ub \in UB :
       op' = [name |-> "delete_period", b |-> NullSS, ps |-> <<p>>,
              res |-> tsequenceset_delete_period(ss, p, ub)]
  /\ UNCHANGED ss

DeletePeriodSet ==
  /\ op = MNoOp
  /\ \E ps \in PeriodSets, ub \in UB :
       op' = [name |-> "delete_periodset", b |-> NullSS, ps |-> ps,
              res |-> tsequenceset_delete_periodset(ss, ps, ub)]
  /\ UNCHANGED ss

MNext == Insert \/ Update \/ DeletePeriod \/ DeletePeriodSet

MSpec == MInit /\ [][MNext]_vars

-----------------------------------------------------------------------------
(* Claims on the modifications                                              *)

\* C11: when insert(a, b) returns, its result covers the time of every
\* sequence of a and of every sequence of b, also when the sequences of the
\* two inputs interleave.
C11_InsertCovers ==
  (op.name = "insert" /\ op.res.err = "none") =>
    (TimeOf(ss) \cup TimeOf(op.b)) \subseteq Support(op.res)

\* The pairs of sequences, one of x and one of y, that touch at an instant
\* included in both, and those of them whose values at that instant differ
TouchingPairs(x, y) ==
  {q \in (1..x.count) \X (1..y.count) :
     LET a == Seqs(x)[q[1]]
         b == Seqs(y)[q[2]]
     IN \/ Upper(a) = Lower(b) /\ a.upper_inc /\ b.lower_inc
        \/ Upper(b) = Lower(a) /\ b.upper_inc /\ a.lower_inc}

MismatchAt(x, y, q) ==
  LET a == Seqs(x)[q[1]]
      b == Seqs(y)[q[2]]
  IN \/ Upper(a) = Lower(b) /\ a.upper_inc /\ b.lower_inc
        /\ LastInst(a).v # FirstInst(b).v
     \/ Upper(b) = Lower(a) /\ b.upper_inc /\ a.lower_inc
        /\ LastInst(b).v # FirstInst(a).v

\* The two sequence sets share no time but the instants at which two of
\* their sequences touch
OnlyTouch(x, y) ==
  \A a \in TimeOf(x) \cap TimeOf(y) :
    \E q \in TouchingPairs(x, y) : a = 2 * Upper(Seqs(x)[q[1]]) \/ a = 2 * Lower(Seqs(x)[q[1]])

\* C12: when a sequence of a and a sequence of b touch at an instant included
\* in both and their values at it differ, insert(a, b) raises
\* ValueMismatchAtJoin, wherever the pair is met.
C12_InsertMismatch ==
  (/\ op.name = "insert"
   /\ OnlyTouch(ss, op.b)
   /\ \E q \in TouchingPairs(ss, op.b) : MismatchAt(ss, op.b, q))
    => op.res.err = "ValueMismatchAtJoin"

\* C13: when update(a, b) returns, its result covers the time of b and takes
\* the values of b on it; it is a copy of b when nothing of a is left outside
\* the time of b.
C13_UpdateTakesB ==
  (op.name = "update" /\ op.res.err = "none") =>
    /\ TimeOf(op.b) \subseteq Support(op.res)
    /\ Agrees(ResSeqs(op.res), Seqs(op.b), TimeOf(op.b))
    /\ (TimeOf(ss) \subseteq TimeOf(op.b) => op.res.ss = op.b)

\* The time between two consecutive pieces l and s
Between(l, s) ==
  {a \in 0..(2 * MaxT) :
     /\ a >= 2 * Upper(l) /\ a <= 2 * Lower(s)
     /\ a \notin SeqAtoms(l) /\ a \notin SeqAtoms(s)}

\* C14: when delete_period or delete_periodset returns, the hole between two
\* consecutive remaining pieces whose values at the two ends of the hole
\* differ is still a hole of the result.
C14_DeleteKeepsHole ==
  (/\ op.name \in {"delete_period", "delete_periodset"}
   /\ op.res.err = "none" /\ op.res.path # "undefined")
    => LET pieces == ResSeqs(tsequenceset_restrict_periodset(ss, op.ps, FALSE))
       IN \A i \in 1..(Len(pieces) - 1) :
            LastInst(pieces[i]).v # FirstInst(pieces[i + 1]).v
              => Between(pieces[i], pieces[i + 1]) \cap Support(op.res) = {}

-----------------------------------------------------------------------------
(* Synchronisation without crossings                                        *)

\* The timestamps of the instants of a sequence
InstTimes(seq) == {seq.insts[i].t : i \in 1..Len(seq.insts)}

\* The intersection of two periods that overlap
inter_span_span(a, b) ==
  [lower |-> IF a.lower >= b.lower THEN a.lower ELSE b.lower,
   upper |-> IF a.upper <= b.upper THEN a.upper ELSE b.upper,
   lower_inc |-> PeriodContains(a, IF a.lower >= b.lower THEN a.lower ELSE b.lower)
                 /\ PeriodContains(b, IF a.lower >= b.lower THEN a.lower ELSE b.lower),
   upper_inc |-> PeriodContains(a, IF a.upper <= b.upper THEN a.upper ELSE b.upper)
                 /\ PeriodContains(b, IF a.upper <= b.upper THEN a.upper ELSE b.upper)]

\* The sequence x on the period p with an instant at each bound of p and at
\* each timestamp within p of an instant of x or of y
SyncPiece(x, y, p) ==
  LET ts == SortedSeq({p.lower, p.upper}
              \cup {t \in InstTimes(x) \cup InstTimes(y) : p.lower < t /\ t < p.upper})
  IN [insts |-> [i \in 1..Len(ts) |-> [t |-> ts[i], v |-> ValueAtSeq(x, ts[i])]],
      lower_inc |-> p.lower_inc, upper_inc |-> p.upper_inc]

\* synchronize_tsequence_tsequence: the two sequences on the intersection of
\* their periods, with the same timestamps
synchronize_tsequence_tsequence(seq1, seq2) ==
  IF ~overlaps_span_span(SeqPeriod(seq1), SeqPeriod(seq2))
  THEN [hasinter |-> FALSE, interseq1 |-> NoSeq, interseq2 |-> NoSeq]
  ELSE [hasinter |-> TRUE,
        interseq1 |-> SyncPiece(seq1, seq2, inter_span_span(SeqPeriod(seq1), SeqPeriod(seq2))),
        interseq2 |-> SyncPiece(seq2, seq1, inter_span_span(SeqPeriod(seq1), SeqPeriod(seq2)))]

\* What the two synchronisations return
NoInter == [found |-> FALSE, inter1 |-> Null, inter2 |-> Null]

SyncResult(sequences1, sequences2) ==
  IF sequences1 = <<>> THEN NoInter
  ELSE [found |-> TRUE,
        inter1 |-> tsequenceset_make_free(sequences1, FALSE),
        inter2 |-> tsequenceset_make_free(sequences2, FALSE)]

\* Lines 2373-2377: no later sequence of ss overlaps seq
SyncSeqDone(seq, seq1) ==
  \/ Upper(seq) < Upper(seq1)
  \/ Upper(seq) = Upper(seq1) /\ (~seq.upper_inc \/ seq1.upper_inc)

\* The loop of lines 2360-2378 from sequence i of ss on
RECURSIVE SyncSeqLoop(_, _, _, _, _)
SyncSeqLoop(s, seq, i, sequences1, sequences2) ==
  IF i >= s.count THEN SyncResult(sequences1, sequences2)
  ELSE IF synchronize_tsequence_tsequence(seq, tsequenceset_seq_n(s, i)).hasinter
  THEN IF SyncSeqDone(seq, tsequenceset_seq_n(s, i))
       THEN SyncResult(
              Append(sequences1,
                synchronize_tsequence_tsequence(seq, tsequenceset_seq_n(s, i)).interseq1),
              Append(sequences2,
                synchronize_tsequence_tsequence(seq, tsequenceset_seq_n(s, i)).interseq2))
       ELSE SyncSeqLoop(s, seq, i + 1,
              Append(sequences1,
                synchronize_tsequence_tsequence(seq, tsequenceset_seq_n(s, i)).interseq1),
              Append(sequences2,
                synchronize_tsequence_tsequence(seq, tsequenceset_seq_n(s, i)).interseq2))
  ELSE IF SyncSeqDone(seq, tsequenceset_seq_n(s, i))
       THEN SyncResult(sequences1, sequences2)
       ELSE SyncSeqLoop(s, seq, i + 1, sequences1, sequences2)

\* Lines 2346-2388
synchronize_tsequenceset_tsequence(s, seq) ==
  IF ~overlaps_span_span(s.period, SeqPeriod(seq)) THEN NoInter
  ELSE SyncSeqLoop(s, seq, tsequenceset_find_timestamp(s, Lower(seq)).loc, <<>>, <<>>)

\* A bug: the cursor of the second set moves whenever the two upper bounds
\* are not the same
SyncAdvanceSecond(seq1, seq2) ==
  IF Upper(seq1) = Upper(seq2) /\ seq1.upper_inc = seq2.upper_inc THEN <<1, 1>>
  ELSE <<0, 1>>

\* Lines 2425-2435: which of the two cursors move
SyncAdvance(seq1, seq2) ==
  IF Upper(seq1) = Upper(seq2) /\ seq1.upper_inc = seq2.upper_inc THEN <<1, 1>>
  ELSE IF \/ Upper(seq1) < Upper(seq2)
          \/ Upper(seq1) = Upper(seq2) /\ ~seq1.upper_inc /\ seq2.upper_inc
  THEN <<1, 0>>
  ELSE <<0, 1>>

\* The loop of lines 2411-2436; i, j count from 0
RECURSIVE SyncSetLoop(_, _, _, _, _, _)
SyncSetLoop(ss1, ss2, i, j, sequences1, sequences2) ==
  IF i >= ss1.count \/ j >= ss2.count THEN SyncResult(sequences1, sequences2)
  ELSE IF synchronize_tsequence_tsequence(
            tsequenceset_seq_n(ss1, i), tsequenceset_seq_n(ss2, j)).hasinter
  THEN SyncSetLoop(ss1, ss2,
         i + SyncAdvance(tsequenceset_seq_n(ss1, i), tsequenceset_seq_n(ss2, j))[1],
         j + SyncAdvance(tsequenceset_seq_n(ss1, i), tsequenceset_seq_n(ss2, j))[2],
         Append(sequences1, synchronize_tsequence_tsequence(
            tsequenceset_seq_n(ss1, i), tsequenceset_seq_n(ss2, j)).interseq1),
         Append(sequences2, synchronize_tsequence_tsequence(
            tsequenceset_seq_n(ss1, i), tsequenceset_seq_n(ss2, j)).interseq2))
  ELSE SyncSetLoop(ss1, ss2,
         i + SyncAdvance(tsequenceset_seq_n(ss1, i), tsequenceset_seq_n(ss2, j))[1],
         j + SyncAdvance(tsequenceset_seq_n(ss1, i), tsequenceset_seq_n(ss2, j))[2],
         sequences1, sequences2)

\* Lines 2398-2446
synchronize_tsequenceset_tsequenceset(ss1, ss2) ==
  IF ~overlaps_span_span(ss1.period, ss2.period) THEN NoInter
  ELSE SyncSetLoop(ss1, ss2, 0, 0, <<>>, <<>>)

-----------------------------------------------------------------------------
(* The synchronisation of a sequence set built by the constructor with a    *)
(* sequence set or with a sequence: one call per behaviour.                 *)

YNoOp == [name |-> "none", b |-> NullSS, seq |-> NoSeq, out |-> NoInter]

YInit ==
  /\ ss \in InputSets
  /\ op = YNoOp

SynchronizeSet ==
  /\ op = YNoOp
  /\ \E b \in InputSets :
       op' = [name |-> "sync_set", b |-> b, seq |-> NoSeq,
              out |-> synchronize_tsequenceset_tsequenceset(ss, b)]
  /\ UNCHANGED ss

SynchronizeSeq ==
  /\ op = YNoOp
  /\ \E seq \in ScaledSeqs :
       op' = [name |-> "sync_seq", b |-> NullSS, seq |-> seq,
              out |-> synchronize_tsequenceset_tsequence(ss, seq)]
  /\ UNCHANGED ss

YNext == SynchronizeSet \/ SynchronizeSeq

YSpec == YInit /\ [][YNext]_vars

-----------------------------------------------------------------------------
(* Claims on the synchronisation                                            *)

\* The sequences of the second argument of the last call
Other == IF op.name = "sync_set" THEN Seqs(op.b) ELSE <<op.seq>>

\* The periods of the sequences of an output
OutPeriods(r) == [i \in 1..Len(ResSeqs(r)) |-> SeqPeriod(ResSeqs(r)[i])]

\* The two outputs have as many sequences, with the same periods, and these
\* periods are the pieces of the common time of the two arguments
SamePeriods ==
  /\ op.out.inter1.err = "none" /\ op.out.inter2.err = "none"
  /\ OutPeriods(op.out.inter1) = OutPeriods(op.out.inter2)
  /\ {OutPeriods(op.out.inter1)[i] : i \in 1..Len(OutPeriods(op.out.inter1))}
       = {inter_span_span(SeqPeriod(Seqs(ss)[i]), SeqPeriod(Other[j])) :
            <<i, j>> \in {q \in (1..ss.count) \X (1..Len(Other)) :
               overlaps_span_span(SeqPeriod(Seqs(ss)[q[1]]), SeqPeriod(Other[q[2]]))}}
  /\ ensure_valid_tseqarr(ResSeqs(op.out.inter1))

\* Each output takes the values of its argument
SameValues ==
  /\ Agrees(ResSeqs(op.out.inter1), Seqs(ss), Support(op.out.inter1))
  /\ Agrees(ResSeqs(op.out.inter2), Other, Support(op.out.inter2))

\* C20: a synchronisation returns nothing exactly when the two arguments
\* share no time; when it returns, the two outputs have the same number of
\* sequences with the same periods, which are the non-empty intersections of
\* a period of one argument with a period of the other in time order, and
\* each output takes the values of its argument.
C20_Synchronize ==
  op.name \in {"sync_set", "sync_seq"} =>
    /\ op.out.found <=> TimeOf(ss) \cap SeqsAtoms(Other) # {}
    /\ op.out.found => (SamePeriods /\ SameValues)

-----------------------------------------------------------------------------
(* The walk of synchronize_tsequenceset_tsequenceset, one iteration of its  *)
(* while loop per step.  op holds the second set b, the cursors i and j,   *)
(* the number k of output pairs, the number n of iterations made, the      *)
(* pairs of sequence numbers that gave an output and the last move.         *)

WalkStart ==
  /\ op = YNoOp
  /\ \E b \in InputSets :
       /\ overlaps_span_span(ss.period, b.period)
       /\ op' = [name |-> "walk", b |-> b, i |-> 0, j |-> 0, k |-> 0, n |-> 0,
                 pairs |-> {}, from |-> <<0, 0>>, move |-> <<0, 0>>]
  /\ UNCHANGED ss

\* Lines 2411-2436: one iteration
WalkStep ==
  /\ op.name = "walk"
  /\ op.i < ss.count /\ op.j < op.b.count
  /\ op' = [op EXCEPT
       !.i = @ + SyncAdvance(tsequenceset_seq_n(ss, op.i), tsequenceset_seq_n(op.b, op.j))[1],
       !.j = @ + SyncAdvance(tsequenceset_seq_n(ss, op.i), tsequenceset_seq_n(op.b, op.j))[2],
       !.k = @ + B2I(synchronize_tsequence_tsequence(
                       tsequenceset_seq_n(ss, op.i), tsequenceset_seq_n(op.b, op.j)).hasinter),
       !.n = @ + 1,
       !.pairs = IF synchronize_tsequence_tsequence(
                       tsequenceset_seq_n(ss, op.i), tsequenceset_seq_n(op.b, op.j)).hasinter
                 THEN @ \cup {<<op.i, op.j>>} ELSE @,
       !.from = <<op.i, op.j>>,
       !.move = SyncAdvance(tsequenceset_seq_n(ss, op.i), tsequenceset_seq_n(op.b, op.j))]
  /\ UNCHANGED ss

WNext == WalkStart \/ WalkStep

WSpec == YInit /\ [][WNext]_vars

\* The last time point of a sequence
EndAtom(seq) == CHOOSE a \in SeqAtoms(seq) : \A c \in SeqAtoms(seq) : c <= a

\* The pairs of sequence numbers, from 0, of ss and b whose periods overlap
OverlappingPairs ==
  {q \in (0..(ss.count - 1)) \X (0..(op.b.count - 1)) :
     SeqAtoms(Seqs(ss)[q[1] + 1]) \cap SeqAtoms(Seqs(op.b)[q[2] + 1]) # {}}

\* C21: every iteration of the walk moves the cursor of the set whose current
\* sequence ends first, both when the two end together; the walk makes at
\* most count(a) + count(b) iterations, gives at most one output pair per
\* iteration, and every pair of overlapping sequences that a cursor has
\* passed has given an output.
C21_Walk ==
  op.name = "walk" =>
    /\ op.n <= ss.count + op.b.count
    /\ op.i <= ss.count /\ op.j <= op.b.count
    /\ op.k <= op.n
    /\ op.k = Cardinality(op.pairs)
    /\ op.n >= 1 =>
         LET e1 == EndAtom(Seqs(ss)[op.from[1] + 1])
             e2 == EndAtom(Seqs(op.b)[op.from[2] + 1])
         IN /\ (op.move[1] = 1 <=> e1 <= e2)
            /\ (op.move[2] = 1 <=> e2 <= e1)
            /\ op.i + op.j >= op.n
    /\ \A q \in OverlappingPairs : (q[1] < op.i \/ q[2] < op.j) => q \in op.pairs
    /\ op.pairs \subseteq OverlappingPairs

\* The walk has ended after three iterations, one of them moving both
\* cursors, with two output pairs
C21_Witness ==
  /\ op.name = "walk"
  /\ (op.i = ss.count \/ op.j = op.b.count)
  /\ op.n >= 2
  /\ op.k >= 2
  /\ op.move = <<1, 1>>
  /\ OverlappingPairs = op.pairs

-----------------------------------------------------------------------------
(* tsequenceset_make on sequences that carry their subtype, interpolation   *)
(* and temporal type                                                        *)

\* What the checks of the constructor read in the header of a sequence
Headers ==
  [subtype : {"TSEQUENCE", "TINSTANT"},
   interp : {"discrete", "step", "linear"},
   temptype : {"T_TINT", "T_TFLOAT"}]

\* MOBDB_FLAGS_GET_LINEAR of the flags of a sequence
MOBDB_FLAGS_GET_LINEAR(h) == h.interp = "linear"

\* Lines 114-127: "none" or the error raised
tsequenceset_make_valid(headers) ==
  IF \E i \in 1..Len(headers) :
       /\ headers[i].subtype # "TSEQUENCE"
       /\ \A k \in 1..(i - 1) :
            MOBDB_FLAGS_GET_LINEAR(headers[k]) = MOBDB_FLAGS_GET_LINEAR(headers[1])
  THEN "TypeMismatch"
  ELSE IF \E i \in 1..Len(headers) :
            MOBDB_FLAGS_GET_LINEAR(headers[i]) # MOBDB_FLAGS_GET_LINEAR(headers[1])
  THEN "InterpolationMismatch"
  ELSE "none"

\* Lines 301-306, the headers of the sequences given apart
tsequenceset_make_typed(sequences, headers, normalize) ==
  IF tsequenceset_make_valid(headers) # "none"
  THEN Failed(tsequenceset_make_valid(headers))
  ELSE tsequenceset_make1(sequences, normalize)

\* The sequences of one instant
InstantSeqs == {s \in InputSeqs : Len(s.insts) = 1}

VNoOp == [name |-> "none", headers |-> <<>>, res |-> Null]

VInit ==
  /\ ss = NullSS
  /\ op = VNoOp

MakeTyped ==
  /\ op = VNoOp
  /\ \E n \in 1..MaxMake :
       \E sequences \in [1..n -> InstantSeqs], headers \in [1..n -> Headers],
          normalize \in BOOLEAN :
         /\ op' = [name |-> "make", headers |-> headers,
                   res |-> tsequenceset_make_typed(sequences, headers, normalize)]
         /\ ss' = tsequenceset_make_typed(sequences, headers, normalize).ss

VNext == MakeTyped

VSpec == VInit /\ [][VNext]_vars

\* C22: tsequenceset_make raises an error and builds no value when a sequence
\* of the array has another interpolation or another temporal type than the
\* first one.
C22_MakeRejects ==
  (/\ op.name = "make"
   /\ \E i \in 1..Len(op.headers) :
        \/ op.headers[i].interp # op.headers[1].interp
        \/ op.headers[i].temptype # op.headers[1].temptype)
    => (op.res.err # "none" /\ ss = NullSS)

-----------------------------------------------------------------------------
(* The number of instants and of timestamps, the n-th instant and the n-th  *)
(* timestamp                                                                *)

\* A bug: the first instant of a sequence is never taken as the last one of
\* the sequence before
SharedInstantNever(seqs, i) == FALSE

\* Lines 938-941 and 970: ! first && tinstant_eq(lastinst, tsequence_inst_n(seq, 0))
SharedInstant(seqs, i) == i > 1 /\ LastInst(seqs[i - 1]) = FirstInst(seqs[i])

\* Lines 1052-1056 and 1089: ! first && lasttime == tsequence_inst_n(seq, 0)->t
SharedTimestamp(seqs, i) == i > 1 /\ LastInst(seqs[i - 1]).t = FirstInst(seqs[i]).t

\* Lines 934-945: what the loop adds from the sequence of index i - 1 on
RECURSIVE NumInstantsLoop(_, _)
NumInstantsLoop(seqs, i) ==
  IF i > Len(seqs) THEN 0
  ELSE Len(seqs[i].insts) - B2I(SharedInstant(seqs, i)) + NumInstantsLoop(seqs, i + 1)

tsequenceset_num_instants(s) == NumInstantsLoop(Seqs(s), 1)

\* Lines 1048-1059
RECURSIVE NumTimestampsLoop(_, _)
NumTimestampsLoop(seqs, i) ==
  IF i > Len(seqs) THEN 0
  ELSE Len(seqs[i].insts) - B2I(SharedTimestamp(seqs, i)) + NumTimestampsLoop(seqs, i + 1)

tsequenceset_num_timestamps(s) == NumTimestampsLoop(Seqs(s), 1)

\* What the accessors give back: an instant, NULL or false, a failed assertion
NthFound(inst) == [kind |-> "found", inst |-> inst]
NthNone == [kind |-> "none", inst |-> [t |-> 0, v |-> 0]]
NthAssert == [kind |-> "assert", inst |-> [t |-> 0, v |-> 0]]

\* Lines 966-985, n 0-based: the loop from the sequence of index i - 1 on
RECURSIVE InstNLoop(_, _, _, _, _)
InstNLoop(seqs, n, i, count, prevcount) ==
  IF i > Len(seqs) THEN NthNone
  ELSE IF /\ prevcount - B2I(SharedInstant(seqs, i)) <= n
          /\ n < count + Len(seqs[i].insts) - B2I(SharedInstant(seqs, i))
  THEN NthFound(seqs[i].insts[n - (prevcount - B2I(SharedInstant(seqs, i))) + 1])
  ELSE InstNLoop(seqs, n, i + 1,
                 count + Len(seqs[i].insts) - B2I(SharedInstant(seqs, i)),
                 count + Len(seqs[i].insts) - B2I(SharedInstant(seqs, i)))

\* Lines 954-989; the assertion of line 957 is compiled in or not
tsequenceset_inst_n(s, n, assertions) ==
  IF assertions /\ ~(n >= 1 /\ n <= s.totalcount) THEN NthAssert
  ELSE IF n = 1 THEN NthFound(FirstInst(tsequenceset_seq_n(s, 0)))
  ELSE InstNLoop(Seqs(s), n - 1, 1, 0, 0)

\* Lines 1085-1104, n 0-based
RECURSIVE TimestampNLoop(_, _, _, _, _)
TimestampNLoop(seqs, n, i, count, prevcount) ==
  IF i > Len(seqs) THEN NthNone
  ELSE IF /\ prevcount - B2I(SharedTimestamp(seqs, i)) <= n
          /\ n < count + Len(seqs[i].insts) - B2I(SharedTimestamp(seqs, i))
  THEN NthFound(seqs[i].insts[n - (prevcount - B2I(SharedTimestamp(seqs, i))) + 1])
  ELSE TimestampNLoop(seqs, n, i + 1,
                      count + Len(seqs[i].insts) - B2I(SharedTimestamp(seqs, i)),
                      count + Len(seqs[i].insts) - B2I(SharedTimestamp(seqs, i)))

\* Lines 1068-1109: the instant whose timestamp is given back, or none for false
tsequenceset_timestamp_n(s, n) ==
  IF n < 1 THEN NthNone
  ELSE IF n = 1 THEN NthFound(FirstInst(tsequenceset_seq_n(s, 0)))
  ELSE TimestampNLoop(Seqs(s), n - 1, 1, 0, 0)

\* The indexes asked for
MaxN == MaxMake * MaxInsts + 1

NNoOp == [name |-> "none", n |-> 0, num |-> 0, res |-> NthNone]

NInit ==
  /\ ss \in InputSets
  /\ op = NNoOp

NumInstants ==
  /\ op = NNoOp
  /\ op' = [NNoOp EXCEPT !.name = "num_instants", !.num = tsequenceset_num_instants(ss)]
  /\ UNCHANGED ss

InstN ==
  /\ op = NNoOp
  /\ \E n \in (0 - 1)..MaxN : \E assertions \in BOOLEAN :
       op' = [NNoOp EXCEPT !.name = "inst_n", !.n = n,
                           !.res = tsequenceset_inst_n(ss, n, assertions)]
  /\ UNCHANGED ss

NumTimestamps ==
  /\ op = NNoOp
  /\ op' = [NNoOp EXCEPT !.name = "num_timestamps",
                         !.num = tsequenceset_num_timestamps(ss)]
  /\ UNCHANGED ss

TimestampN ==
  /\ op = NNoOp
  /\ \E n \in (0 - 1)..MaxN :
       op' = [NNoOp EXCEPT !.name = "timestamp_n", !.n = n,
                           !.res = tsequenceset_timestamp_n(ss, n)]
  /\ UNCHANGED ss

NNext == NumInstants \/ InstN \/ NumTimestamps \/ TimestampN

NSpec == NInit /\ [][NNext]_vars

\* The instants of the sequences one after the other, the first instant of a
\* sequence left out when it is the last instant of the sequence before
RECURSIVE DistinctInstants(_)
DistinctInstants(seqs) ==
  IF Len(seqs) = 0 THEN <<>>
  ELSE IF Len(seqs) = 1 THEN seqs[1].insts
  ELSE LET before == DistinctInstants(SubSeq(seqs, 1, Len(seqs) - 1))
           insts == seqs[Len(seqs)].insts
       IN IF before[Len(before)] = insts[1] THEN before \o Tail(insts)
          ELSE before \o insts

\* The timestamps of the instants of all the sequences, each one once
DistinctTimestamps(seqs) ==
  SortedSeq(UNION {{seqs[i].insts[k].t : k \in 1..Len(seqs[i].insts)} :
                     i \in 1..Len(seqs)})

-----------------------------------------------------------------------------
(* Equality, comparison and hash                                            *)

\* tinstant_cmp: the timestamps, then the values
tinstant_cmp(i1, i2) ==
  IF i1.t < i2.t THEN 0 - 1
  ELSE IF i1.t > i2.t THEN 1
  ELSE IF i1.v < i2.v THEN 0 - 1
  ELSE IF i1.v > i2.v THEN 1
  ELSE 0

\* tsequence_cmp, a total order of the sequences: the instants one by one,
\* then the number of instants, then the bounds (an inclusive lower and an
\* exclusive upper bound first)
RECURSIVE InstantsCmp(_, _, _)
InstantsCmp(seq1, seq2, k) ==
  IF k > Len(seq1.insts) /\ k > Len(seq2.insts) THEN 0
  ELSE IF k > Len(seq1.insts) THEN 0 - 1
  ELSE IF k > Len(seq2.insts) THEN 1
  ELSE IF tinstant_cmp(seq1.insts[k], seq2.insts[k]) # 0
  THEN tinstant_cmp(seq1.insts[k], seq2.insts[k])
  ELSE InstantsCmp(seq1, seq2, k + 1)

tsequence_cmp(seq1, seq2) ==
  IF InstantsCmp(seq1, seq2, 1) # 0 THEN InstantsCmp(seq1, seq2, 1)
  ELSE IF seq1.lower_inc # seq2.lower_inc THEN (IF seq1.lower_inc THEN 0 - 1 ELSE 1)
  ELSE IF seq1.upper_inc # seq2.upper_inc THEN (IF seq1.upper_inc THEN 1 ELSE 0 - 1)
  ELSE 0

\* tsequence_eq
tsequence_eq(seq1, seq2) == seq1 = seq2

\* Lines 3203-3225; the flags are equal, the sets having one interpolation
tsequenceset_eq(ss1, ss2) ==
  /\ ss1.count = ss2.count
  /\ ss1.period = ss2.period
  /\ \A i \in 0..(ss1.count - 1) :
       tsequence_eq(tsequenceset_seq_n(ss1, i), tsequenceset_seq_n(ss2, i))

Min(a, b) == IF a < b THEN a ELSE b

\* Lines 3243-3250: the loop from index i on
RECURSIVE CmpLoop(_, _, _)
CmpLoop(ss1, ss2, i) ==
  IF i >= Min(ss1.count, ss2.count) THEN 0
  ELSE IF tsequence_cmp(tsequenceset_seq_n(ss1, i), tsequenceset_seq_n(ss2, i)) # 0
  THEN tsequence_cmp(tsequenceset_seq_n(ss1, i), tsequenceset_seq_n(ss2, i))
  ELSE CmpLoop(ss1, ss2, i + 1)

\* Lines 3237-3260
tsequenceset_cmp(ss1, ss2) == CmpLoop(ss1, ss2, 0)

\* The sets of sequences of one instant of value 0
CmpSets ==
  {s \in InputSets :
     \A i \in 1..s.count : Len(Seqs(s)[i].insts) = 1 /\ FirstInst(Seqs(s)[i]).v = 0}

CNoOp == [name |-> "none", b |-> NullSS, c |-> NullSS, eq |-> FALSE,
          ab |-> 0, ba |-> 0, bc |-> 0, ac |-> 0]

CInit ==
  /\ ss \in InputSets
  /\ op = CNoOp

\* tsequenceset_eq(ss, b), tsequenceset_cmp(ss, b) and tsequenceset_cmp(b, ss)
CompareTwo ==
  /\ op = CNoOp
  /\ \E b \in InputSets :
       op' = [CNoOp EXCEPT !.name = "two", !.b = b,
                           !.eq = tsequenceset_eq(ss, b),
                           !.ab = tsequenceset_cmp(ss, b),
                           !.ba = tsequenceset_cmp(b, ss)]
  /\ UNCHANGED ss

\* tsequenceset_cmp on the pairs of three sets
CompareThree ==
  /\ op = CNoOp
  /\ ss \in CmpSets
  /\ \E b \in CmpSets, c \in CmpSets :
       op' = [CNoOp EXCEPT !.name = "three", !.b = b, !.c = c,
                           !.ab = tsequenceset_cmp(ss, b),
                           !.bc = tsequenceset_cmp(b, c),
                           !.ac = tsequenceset_cmp(ss, c)]
  /\ UNCHANGED ss

CNext == CompareTwo \/ CompareThree

CSpec == CInit /\ [][CNext]_vars

\* C24: tsequenceset_cmp is a total order that agrees with tsequenceset_eq:
\* cmp(a, b) = 0 exactly when eq(a, b), cmp(b, a) has the opposite sign of
\* cmp(a, b), and cmp(a, b) <= 0 and cmp(b, c) <= 0 give cmp(a, c) <= 0, also
\* when the sequences of one set are the first sequences of another.
C24_TotalOrder ==
  /\ op.name = "two" => ((op.ab = 0) <=> op.eq) /\ op.ab = 0 - op.ba
  /\ op.name = "three" => (op.ab <= 0 /\ op.bc <= 0 => op.ac <= 0)

\* uint32 values as two halves of 16 bits, and their wrap-around arithmetic
Half == 65536
U32(n) == [hi |-> 0, lo |-> n]
Shl5(h) == [hi |-> (h.hi * 32 + (h.lo * 32) \div Half) % Half, lo |-> (h.lo * 32) % Half]
Sub32(a, b) ==
  [hi |-> (a.hi - b.hi - (IF a.lo < b.lo THEN 1 ELSE 0)) % Half, lo |-> (a.lo - b.lo) % Half]
Add32(a, b) ==
  [hi |-> (a.hi + b.hi + (a.lo + b.lo) \div Half) % Half, lo |-> (a.lo + b.lo) % Half]

\* A bug: the hash of every sequence is added to the first value
HashStepFlat(h, seq_hash) == Add32(U32(1), seq_hash)

\* Line 3281: result = (result << 5) - result + seq_hash
HashStep(h, seq_hash) == Add32(Sub32(Shl5(h), h), seq_hash)

\* The hash of an instant and of a sequence: 32-bit values of their contents
tinstant_hash(inst) ==
  [hi |-> (40503 * (inst.t * (MaxV * Scale + 1) + inst.v + 1)) % Half,
   lo |-> (30011 * (inst.t * (MaxV * Scale + 1) + inst.v + 1)) % Half]

RECURSIVE InstantsHash(_, _, _)
InstantsHash(seq, k, h) ==
  IF k > Len(seq.insts) THEN h
  ELSE InstantsHash(seq, k + 1, Add32(Sub32(Shl5(h), h), tinstant_hash(seq.insts[k])))

tsequence_hash(seq) ==
  InstantsHash(seq, 1, U32(2 * B2I(seq.lower_inc) + B2I(seq.upper_inc)))

\* Lines 3277-3282: the loop from index i on
RECURSIVE HashLoop(_, _, _)
HashLoop(s, i, result) ==
  IF i >= s.count THEN result
  ELSE HashLoop(s, i + 1, HashStep(result, tsequence_hash(tsequenceset_seq_n(s, i))))

\* Lines 3273-3284
tsequenceset_hash(s) == HashLoop(s, 0, U32(1))

\* The sets built with room for twice their sequences
ExpandedSets ==
  { tsequenceset_make1_exp(sequences, 2 * Len(sequences), normalize).ss :
      sequences \in { a \in UNION {[1..n -> ScaledSeqs] : n \in 1..MaxMake} :
                        ensure_valid_tseqarr(a) },
      normalize \in BOOLEAN }

HNoOp == [name |-> "none", b |-> NullSS, eq |-> FALSE, h |-> U32(0), hb |-> U32(0)]

HInit ==
  /\ ss \in InputSets
  /\ op = HNoOp

\* tsequenceset_hash(ss), tsequenceset_hash(b) and tsequenceset_eq(ss, b)
Hash ==
  /\ op = HNoOp
  /\ \E b \in ExpandedSets :
       op' = [HNoOp EXCEPT !.name = "hash", !.b = b,
                           !.eq = tsequenceset_eq(ss, b),
                           !.h = tsequenceset_hash(ss),
                           !.hb = tsequenceset_hash(b)]
  /\ UNCHANGED ss

HNext == Hash

HSpec == HInit /\ [][HNext]_vars

\* 31 * h + s: the two halves, and whether it goes beyond 32 bits
Times31Plus(h, s) ==
  [hi |-> (31 * h.hi + s.hi + (31 * h.lo + s.lo) \div Half) % Half,
   lo |-> (31 * h.lo + s.lo) % Half]
Wraps(h, s) == 31 * h.hi + s.hi + (31 * h.lo + s.lo) \div Half >= Half

\* The fold over the first n sequences
RECURSIVE FoldSum(_, _)
FoldSum(seqs, n) ==
  IF n = 0 THEN U32(1)
  ELSE Times31Plus(FoldSum(seqs, n - 1), tsequence_hash(seqs[n]))

\* C25: the hash of a sequence set is the fold h := (h << 5) - h + hash(seq_i)
\* over its sequences from h = 1 in 32-bit wrap-around arithmetic, and two
\* sets that are equal have the same hash, whatever their maxcount and the
\* unused part of their buffers.
C25_Hash ==
  op.name = "hash" =>
    /\ op.h = FoldSum(Seqs(ss), ss.count)
    /\ op.hb = FoldSum(Seqs(op.b), op.b.count)
    /\ op.eq => op.h = op.hb

\* Two equal sets with different maxcount and buffers, the fold wrapping around
C25_Witness ==
  /\ op.name = "hash"
  /\ op.eq
  /\ ss.count = 2
  /\ op.b.maxcount # ss.maxcount
  /\ op.b.mem # ss.mem
  /\ Wraps(FoldSum(Seqs(ss), 1), tsequence_hash(Seqs(ss)[2]))
  /\ op.h = op.hb

-----------------------------------------------------------------------------
(* tsequenceset_shift_tscale                                                *)

\* period_shift_tscale(&p2, shift, duration): the shift moves both bounds,
\* the duration sets the upper bound of a period that is not an instant
period_shift_tscale(p, hasshift, shift, hasdur, duration) ==
  [p EXCEPT
     !.lower = IF hasshift THEN p.lower + shift ELSE p.lower,
     !.upper = IF hasdur /\ p.lower # p.upper
               THEN (IF hasshift THEN p.lower + shift ELSE p.lower) + duration
               ELSE IF hasshift THEN p.upper + shift ELSE p.upper]

\* Lines 1396-1402: p1, from the first instant to the last one
ShiftP1(s) ==
  [lower |-> FirstInst(tsequenceset_seq_n(s, 0)).t,
   upper |-> LastInst(tsequenceset_seq_n(s, s.count - 1)).t,
   lower_inc |-> tsequenceset_seq_n(s, 0).lower_inc,
   upper_inc |-> tsequenceset_seq_n(s, s.count - 1).upper_inc]

\* p2.lower + (x - from) * scale, scale of lines 1411-1412 being
\* (p2.upper - p2.lower) / (p1.upper - p1.lower); the product is cut to an integer
Scaled(x, from, p1, p2) ==
  p2.lower + ((x - from) * (p2.upper - p2.lower)) \div (p1.upper - p1.lower)

\* Lines 1419-1429: a bound of the period of a sequence of count instants
ShiftBound(x, count, p1, p2, hasshift, hasdur) ==
  IF hasdur /\ count > 1
  THEN Scaled(x, p1.lower, p1, p2)
  ELSE IF hasshift /\ (~hasdur \/ count = 1) THEN x + (p2.lower - p1.lower)
  ELSE x

\* Lines 1431-1440: the timestamp of an instant of a sequence of count instants
ShiftInstant(t, count, p1, p2, hasshift, hasdur) ==
  IF hasdur /\ count > 1
  THEN Scaled(IF hasshift THEN t + (p2.lower - p1.lower) ELSE t, p2.lower, p1, p2)
  ELSE IF hasshift THEN t + (p2.lower - p1.lower)
  ELSE t

\* Lines 1415-1441 for one sequence: its period and its instants
ShiftSequence(seq, p1, p2, hasshift, hasdur) ==
  [lower |-> ShiftBound(Lower(seq), Len(seq.insts), p1, p2, hasshift, hasdur),
   upper |-> ShiftBound(Upper(seq), Len(seq.insts), p1, p2, hasshift, hasdur),
   lower_inc |-> seq.lower_inc,
   upper_inc |-> seq.upper_inc,
   insts |-> [k \in 1..Len(seq.insts) |->
                [seq.insts[k] EXCEPT
                   !.t = ShiftInstant(seq.insts[k].t, Len(seq.insts), p1, p2,
                                      hasshift, hasdur)]]]

\* Lines 1386-1443: the period of the copy, which no line writes, and the
\* sequences of the copy
tsequenceset_shift_tscale(s, hasshift, shift, hasdur, duration) ==
  [period |-> tsequenceset_copy(s).ss.period,
   seqs |-> [i \in 1..s.count |->
               ShiftSequence(tsequenceset_seq_n(s, i - 1), ShiftP1(s),
                             period_shift_tscale(ShiftP1(s), hasshift, shift,
                                                 hasdur, duration),
                             hasshift, hasdur)]]

\* The shifts and the durations given
Shifts == (0 - 1)..2
Durations == 1..4

TNoOp == [name |-> "none", hasshift |-> FALSE, shift |-> 0, hasdur |-> FALSE,
          duration |-> 0, res |-> [period |-> NoPeriod, seqs |-> <<>>]]

TInit ==
  /\ ss \in InputSets
  /\ op = TNoOp

Shift ==
  /\ op = TNoOp
  /\ \E shift \in Shifts :
       op' = [TNoOp EXCEPT !.name = "shift_tscale", !.hasshift = TRUE, !.shift = shift,
                !.res = tsequenceset_shift_tscale(ss, TRUE, shift, FALSE, 0)]
  /\ UNCHANGED ss

Tscale ==
  /\ op = TNoOp
  /\ \E duration \in Durations :
       op' = [TNoOp EXCEPT !.name = "shift_tscale", !.hasdur = TRUE,
                !.duration = duration,
                !.res = tsequenceset_shift_tscale(ss, FALSE, 0, TRUE, duration)]
  /\ UNCHANGED ss

ShiftTscale ==
  /\ op = TNoOp
  /\ \E shift \in Shifts, duration \in Durations :
       op' = [TNoOp EXCEPT !.name = "shift_tscale", !.hasshift = TRUE, !.shift = shift,
                !.hasdur = TRUE, !.duration = duration,
                !.res = tsequenceset_shift_tscale(ss, TRUE, shift, TRUE, duration)]
  /\ UNCHANGED ss

TNext == Shift \/ Tscale \/ ShiftTscale

TSpec == TInit /\ [][TNext]_vars

\* C26: the bounding period stored in a sequence set goes from the lower bound
\* of its first sequence to the upper bound of its last sequence, with their
\* inclusive flags; here for the value that tsequenceset_shift_tscale returns.
C26_BoundingPeriod ==
  op.name = "shift_tscale" =>
    op.res.period =
      [lower |-> op.res.seqs[1].lower,
       upper |-> op.res.seqs[Len(op.res.seqs)].upper,
       lower_inc |-> op.res.seqs[1].lower_inc,
       upper_inc |-> op.res.seqs[Len(op.res.seqs)].upper_inc]

\* C28: in the value that tsequenceset_shift_tscale returns each sequence ends
\* before the next one starts, also when sequences of one instant and of
\* several instants are mixed, and the bounds of the period of each sequence
\* are the timestamps of its first and of its last instant.
C28_ShiftKeepsOrder ==
  op.name = "shift_tscale" =>
    /\ \A i \in 1..(Len(op.res.seqs) - 1) :
         \/ op.res.seqs[i].upper < op.res.seqs[i + 1].lower
         \/ /\ op.res.seqs[i].upper = op.res.seqs[i + 1].lower
            /\ ~(op.res.seqs[i].upper_inc /\ op.res.seqs[i + 1].lower_inc)
    /\ \A i \in 1..Len(op.res.seqs) :
         /\ op.res.seqs[i].lower = FirstInst(op.res.seqs[i]).t
         /\ op.res.seqs[i].upper = LastInst(op.res.seqs[i]).t

-----------------------------------------------------------------------------
(* tsequenceset_overlaps_period                                             *)

\* Lines 3112-3119: the loop from index i on
RECURSIVE OverlapsLoop(_, _, _)
OverlapsLoop(s, p, i) ==
  IF i >= s.count THEN FALSE
  ELSE IF overlaps_span_span(SeqPeriod(tsequenceset_seq_n(s, i)), p) THEN TRUE
  ELSE IF p.upper < Upper(tsequenceset_seq_n(s, i)) THEN FALSE
  ELSE OverlapsLoop(s, p, i + 1)

\* Lines 3103-3121
tsequenceset_overlaps_period(s, p) ==
  IF \/ tsequenceset_find_timestamp(s, p.lower).found
     \/ tsequenceset_find_timestamp(s, p.upper).found
  THEN TRUE
  ELSE OverlapsLoop(s, p, tsequenceset_find_timestamp(s, p.lower).loc)

ONoOp == [name |-> "none", p |-> NoPeriod, res |-> FALSE]

OInit ==
  /\ ss \in InputSets
  /\ op = ONoOp

OverlapsPeriod ==
  /\ op = ONoOp
  /\ \E p \in Periods :
       op' = [name |-> "overlaps_period", p |-> p,
              res |-> tsequenceset_overlaps_period(ss, p)]
  /\ UNCHANGED ss

ONext == OverlapsPeriod

OSpec == OInit /\ [][ONext]_vars

\* C27: tsequenceset_overlaps_period(ss, p) is true exactly when the period of
\* some sequence of ss has a time in common with p, whatever the bounds of p
\* and of the sequences are, inclusive or not.
C27_OverlapsPeriod ==
  op.name = "overlaps_period" =>
    (op.res <=> PeriodAtoms(op.p) \cap SeqsAtoms(Seqs(ss)) # {})

-----------------------------------------------------------------------------
(* The indexes and the arrays of the general case of                        *)
(* tsequenceset_delete_periodset                                            *)

\* Lines 3033-3051: the number of iterations of the loop, which moves i and j
\* together from (1, j)
DeleteIterations(n, ps, j) == Min(n - 1, IF j < Len(ps) THEN Len(ps) - j ELSE 0)

\* Lines 3035-3047: the number of sequences made to fill a hole from (i, j)
\* on; the test reads seq, which is tsequenceset_seq_n(minus, i): when minus
\* has no such sequence the read is undefined and the test gives garbage
RECURSIVE DeleteFilled(_, _, _, _, _, _)
DeleteFilled(minus, n, ps, i, j, garbage) ==
  IF i >= n \/ j >= Len(ps) THEN 0
  ELSE B2I(IF i < minus.count THEN DeleteFills(ps[j + 1], tsequenceset_seq_n(minus, i))
           ELSE garbage)
       + DeleteFilled(minus, n, ps, i + 1, j + 1, garbage)

Max(a, b) == IF a > b THEN a ELSE b

\* Lines 3012-3054 with minus not NULL: the largest index given to
\* tsequenceset_seq_n(minus, .) (lines 3018, 3032, 3049, 3054) and to
\* spanset_sp_n(ps, .) (lines 3019, 3030, 3050), the numbers k and l of
\* entries written to sequences and to tofree, and the sizes of the two arrays
DeleteIndexes(s, minus, ps, j, garbage) ==
  [minusnull |-> FALSE,
   maxseq |-> Max(Max(1, s.count - 1),
                  IF DeleteIterations(s.count, ps, j) > 0
                  THEN DeleteIterations(s.count, ps, j) + 1 ELSE 0),
   maxsp |-> j + DeleteIterations(s.count, ps, j),
   k |-> s.count + DeleteFilled(minus, s.count, ps, 1, j, garbage),
   l |-> DeleteFilled(minus, s.count, ps, 1, j, garbage),
   minuscount |-> minus.count,
   sequences |-> minus.count * 2 - 1,
   tofree |-> minus.count - 1]

\* Line 3014 reads minus->count: minus is NULL when ps covers ss
DeleteMinusNull ==
  [minusnull |-> TRUE, maxseq |-> 0, maxsp |-> 0, k |-> 0, l |-> 0,
   minuscount |-> 0, sequences |-> 0, tofree |-> 0]

\* Lines 3011-3054
DeleteGeneralIndexes(s, minus, ps, garbage) ==
  IF minus = NullSS THEN DeleteMinusNull
  ELSE DeleteIndexes(s, minus, ps,
                     DeleteSkip(ps, tsequenceset_seq_n(minus, 0), 0), garbage)

DNoOp == [name |-> "none", ps |-> <<>>, chk |-> DeleteMinusNull]

DInit ==
  /\ ss \in InputSets
  /\ op = DNoOp

\* tsequenceset_delete_periodset(ss, ps) when it takes the general case
DeleteGeneralCase ==
  /\ op = DNoOp
  /\ ss.count >= 2
  /\ \E ps \in PeriodSets, garbage \in BOOLEAN :
       /\ overlaps_span_span(ss.period, SpanOf(ps))
       /\ op' = [name |-> "delete_general", ps |-> ps,
                 chk |-> DeleteGeneralIndexes(ss,
                           tsequenceset_restrict_periodset(ss, ps, FALSE).ss, ps, garbage)]
  /\ UNCHANGED ss

DNext == DeleteGeneralCase

DSpec == DInit /\ [][DNext]_vars

\* C29: in the general case of tsequenceset_delete_periodset minus is not
\* empty when it is dereferenced, every index that reads a sequence of minus
\* is below its count, every index that reads a period is below the number of
\* periods, and at most 2 * minus.count - 1 entries are written to the result
\* array and at most minus.count - 1 to the array of the sequences to free.
C29_DeleteIndexes ==
  op.name = "delete_general" =>
    /\ ~op.chk.minusnull
    /\ op.chk.maxseq < op.chk.minuscount
    /\ op.chk.maxsp < Len(op.ps)
    /\ op.chk.k <= op.chk.sequences
    /\ op.chk.l <= op.chk.tofree

-----------------------------------------------------------------------------
(* The array of pointers of the reallocating path of                        *)
(* tsequenceset_append_tinstant                                             *)

\* Lines 2147-2158: the number k of pointers written to sequences
AppendInstPointers(s, temp) == (s.count - 1) + Len(temp)

\* Lines 2087-2110: the branch that appends in place is not taken
AppendInstReallocates(s, temp, expand) ==
  ~(/\ expand
    /\ (IF Len(temp) = 1 THEN s.count ELSE s.count + 1) <= s.maxcount
    /\ AppendInstSize(temp) <= AvailSize(s, tsequenceset_seq_n(s, s.count - 1)))

ANoOp == [name |-> "none", inst |-> [t |-> 0, v |-> 0], expand |-> FALSE,
          temp |-> <<>>, bytes |-> 0, k |-> 0]

AInit ==
  /\ ss \in InputSets \cup ExpandedSets
  /\ op = ANoOp

\* tsequenceset_append_tinstant(ss, inst, expand) up to line 2158 when it
\* takes the reallocating path
AppendInstantRealloc ==
  /\ op = ANoOp
  /\ \E inst \in [t : Times, v : 0..(MaxV * Scale)], expand \in BOOLEAN :
       /\ tsequence_append_tinstant(tsequenceset_seq_n(ss, ss.count - 1), inst).err = "none"
       /\ AppendInstReallocates(ss,
            tsequence_append_tinstant(tsequenceset_seq_n(ss, ss.count - 1), inst).seqs,
            expand)
       /\ op' = [name |-> "append_realloc", inst |-> inst, expand |-> expand,
                 temp |-> tsequence_append_tinstant(
                            tsequenceset_seq_n(ss, ss.count - 1), inst).seqs,
                 bytes |-> AppendInstPtrBytes(ss),
                 k |-> AppendInstPointers(ss,
                         tsequence_append_tinstant(
                           tsequenceset_seq_n(ss, ss.count - 1), inst).seqs)]
  /\ UNCHANGED ss

ANext == AppendInstantRealloc

ASpec == AInit /\ [][ANext]_vars

\* C30: in the reallocating path of tsequenceset_append_tinstant the bytes
\* allocated for the array of sequence pointers are at least the size of a
\* pointer times the number k of pointers written to it, both when the instant
\* extends the last sequence (k = count) and when it gives two sequences
\* (k = count + 1).
C30_PointerArray ==
  op.name = "append_realloc" =>
    /\ op.k = (IF Len(op.temp) = 1 THEN ss.count ELSE ss.count + 1)
    /\ op.bytes >= 8 * op.k
====
